---- MODULE Spec2Model ----
(***************************************************************************)
(* Model of repository-cli: the record service as seen by the tool, the    *)
(* existence probes, the update-with-rollback procedure update_record      *)
(* (repository_cli/utils.py) and the command handlers that call it.        *)
(***************************************************************************)
EXTENDS Integers, Sequences, FiniteSets, TLC

\* ------------------------------------------------------------------------
\* Bounds of the model
\* ------------------------------------------------------------------------
MaxCommands == 2
MaxBatch == 2

\* ------------------------------------------------------------------------
\* Value domains
\* ------------------------------------------------------------------------
PIDs == {"r1", "r2"}
Schemes == {"ark", "doi"}
IdValues == {"v1", "v2"}
Identifier == [scheme : Schemes, identifier : IdValues]
PidKeys == {"doi", "unknown_identifier"}
PidValue == [identifier : {"10.1/x"}, provider : {"unmanaged"}]
NoPid == [identifier |-> "", provider |-> ""]

NoPids == [k \in PidKeys |-> NoPid]

\* tests/conftest.py minimal_record: no metadata.identifiers key, pids == {}
DocMinimal ==
    [has_identifiers |-> FALSE, identifiers |-> << >>, pids |-> NoPids]

\* tests/conftest.py create_record: one ark identifier
DocArk ==
    [has_identifiers |-> TRUE,
     identifiers |-> << [scheme |-> "ark", identifier |-> "v1"] >>,
     pids |-> NoPids]

DocDoi ==
    [has_identifiers |-> TRUE,
     identifiers |-> << [scheme |-> "ark", identifier |-> "v1"] >>,
     pids |-> [NoPids EXCEPT !["doi"] =
                  [identifier |-> "10.1/x", provider |-> "datacite"]]]

InitDocs == {DocMinimal, DocDoi}
InputDocs == {DocMinimal, DocArk}

\* ------------------------------------------------------------------------
\* State
\* ------------------------------------------------------------------------
VARIABLES
    status,      \* per PID: "absent", "published" or "deleted" (soft-deleted)
    restricted,  \* per PID: record readable by the trusted process only
    published,   \* per PID: the published document
    has_draft,   \* per PID: an open draft exists
    draft,       \* per PID: the contents of the open draft
    pc,          \* position of the running command
    cmd,         \* name of the running (or last) command
    queue,       \* entries of the batch still to be processed
    ur,          \* arguments and locals of the update_record call
    entry,       \* the record as it was when update_record was entered
    calls,       \* service calls made by the current update_record call
    result,      \* how the last update_record call ended
    probe,       \* the last exists_record call and what it returned
    hd,          \* old_data / new_data handed over by the last handler
    output,      \* lines reported by the running command
    ncmds,       \* number of commands started
    roles,       \* the role directory of the accounts datastore
    idents,      \* the Identity objects constructed by the running process
    ident,       \* the last get_identity call and what it gave
    cmd_error,   \* message of the exception that ended the command, or ""
    batch,       \* input list of the running batch command, and which
                 \* records had an open draft when it started
    files,       \* the file store of every record: enabled flag, file
                 \* names, lock
    flog,        \* file-store and database calls of the running command
    conv,        \* the last conversion of a JSON-typed option value
    outfile,     \* what records list wrote to its output file
    inv          \* two concurrent invocations of update_record: their
                 \* position and local variables

vars == << status, restricted, published, has_draft, draft, pc, cmd, queue,
           ur, entry, calls, result, probe, hd, output, ncmds, roles, idents,
           ident, cmd_error, batch, files, flog, conv, outfile, inv >>

ext_vars == << files, flog, conv, outfile, inv >>

service_vars == << status, restricted, published, has_draft, draft >>

process_vars == << roles, idents, ident, cmd_error, batch >>

\* ------------------------------------------------------------------------
\* Identity resolver
\* ------------------------------------------------------------------------
RoleNames == {"admin", "curator"}
PermissionNames == {"any_user", "system_process", "superuser"}

RoleNeed(role_name) == "role:" \o role_name

\* IdentityNotFoundError.__init__
IdentityNotFoundError(role) == "Role " \o role \o " does not exist"

\* get_identity: identity = Identity(0) is object Len(idents) + 1 of the
\* process; role_name "" stands for None.  heap is the objects of the process
\* after the call, call is the record of the call.
get_identity_NoRoleCheck(permission_name, role_name) ==
    LET permission == IF permission_name = "system_process"
                      THEN "system_process" ELSE "any_user"
        obj == Len(idents) + 1
    IN  [raised |-> FALSE, message |-> "", obj |-> obj,
         provides |-> {permission},
         heap |-> Append(idents, {permission}),
         call |-> [permission_name |-> permission_name,
                   role_name |-> role_name, raised |-> FALSE,
                   message |-> "", obj |-> obj, provides |-> {permission}]]
get_identity_Cached(permission_name, role_name) ==
    LET permission == IF permission_name = "system_process"
                      THEN "system_process" ELSE "any_user"
        obj == 1
        raised == role_name # "" /\ role_name \notin roles
        added == IF role_name # "" /\ ~raised
                 THEN {RoleNeed(role_name), permission}
                 ELSE IF raised THEN {} ELSE {permission}
        provides == IF idents = << >> THEN added ELSE idents[1] \cup added
        message == IF raised THEN IdentityNotFoundError(role_name) ELSE ""
    IN  [raised |-> raised, message |-> message,
         obj |-> IF raised THEN 0 ELSE obj,
         provides |-> IF raised THEN {} ELSE provides,
         heap |-> IF idents = << >> THEN << provides >>
                  ELSE [idents EXCEPT ![1] = provides],
         call |-> [permission_name |-> permission_name,
                   role_name |-> role_name, raised |-> raised,
                   message |-> message, obj |-> IF raised THEN 0 ELSE obj,
                   provides |-> IF raised THEN {} ELSE provides]]
get_identity(permission_name, role_name) ==
    LET permission == IF permission_name = "system_process"
                      THEN "system_process" ELSE "any_user"
        obj == Len(idents) + 1
        raised == role_name # "" /\ role_name \notin roles
        provides == IF role_name # "" /\ ~raised
                    THEN {RoleNeed(role_name), permission}
                    ELSE IF raised THEN {} ELSE {permission}
        message == IF raised THEN IdentityNotFoundError(role_name) ELSE ""
    IN  [raised |-> raised, message |-> message,
         obj |-> IF raised THEN 0 ELSE obj,
         provides |-> provides,
         heap |-> Append(idents, provides),
         call |-> [permission_name |-> permission_name,
                   role_name |-> role_name, raised |-> raised,
                   message |-> message, obj |-> IF raised THEN 0 ELSE obj,
                   provides |-> provides]]

NoIdent == [permission_name |-> "none", role_name |-> "", raised |-> FALSE,
            message |-> "", obj |-> 0, provides |-> {}]

AdminIdentity == {RoleNeed("admin"), "system_process"}
AnyUserIdentity == {"any_user"}

\* ------------------------------------------------------------------------
\* The external record service: outcome of each operation in a state.
\* "fault" is an error of the service that the state does not explain.
\* ------------------------------------------------------------------------
MayRead(pid, identity) ==
    "system_process" \in identity \/ ~restricted[pid]

\* service.read: "ok" or the reason it raises
ReadOutcome(pid, identity, fault) ==
    IF status[pid] = "absent" THEN "not_found"
    ELSE IF status[pid] = "deleted" THEN "deleted"
    ELSE IF ~MayRead(pid, identity) THEN "permission_denied"
    ELSE IF fault THEN "other"
    ELSE "ok"

\* service.read_draft: "ok" or the reason it raises
ReadDraftOutcome(pid, identity, fault) ==
    IF ~has_draft[pid] THEN "not_found"
    ELSE IF ~MayRead(pid, identity) THEN "permission_denied"
    ELSE IF fault THEN "other"
    ELSE "ok"

\* service.edit: opens a draft holding the published document; an open
\* draft is returned as it is
EditDraft(pid) == IF has_draft[pid] THEN draft[pid] ELSE published[pid]

\* ------------------------------------------------------------------------
\* Existence probes
\* ------------------------------------------------------------------------
\* "except Exception" catches whatever the service raises
CaughtByExceptException_NotFoundOnly(outcome) == outcome = "not_found"
CaughtByExceptException(outcome) == outcome # "ok"

\* try: service.read(...) / except Exception: return False / return True
exists_record_TwoReads(pid, identity, fault) ==
    LET outcome == ReadOutcome(pid, identity, fault)
        seen == [pid |-> pid, identity |-> identity, outcome |-> outcome,
                 status |-> status[pid], may_read |-> MayRead(pid, identity)]
    IN  IF outcome = "ok"
        THEN [seen |-> seen, returned |-> TRUE, propagated |-> FALSE,
              service_calls |-> << "read" >>]
        ELSE [seen |-> seen,
              returned |-> (ReadDraftOutcome(pid, identity, fault) = "ok"),
              propagated |-> FALSE,
              service_calls |-> << "read", "read_draft" >>]
exists_record(pid, identity, fault) ==
    LET outcome == ReadOutcome(pid, identity, fault)
        seen == [pid |-> pid, identity |-> identity, outcome |-> outcome,
                 status |-> status[pid], may_read |-> MayRead(pid, identity)]
    IN  IF outcome = "ok"
        THEN [seen |-> seen, returned |-> TRUE, propagated |-> FALSE,
              service_calls |-> << "read" >>]
        ELSE IF CaughtByExceptException(outcome)
        THEN [seen |-> seen, returned |-> FALSE, propagated |-> FALSE,
              service_calls |-> << "read" >>]
        ELSE [seen |-> seen, returned |-> FALSE, propagated |-> TRUE,
              service_calls |-> << "read" >>]

\* try: service.read_draft(...) / except Exception: return False / return True
exists_draft_ReadsRecord(pid, identity, fault) ==
    LET outcome == ReadOutcome(pid, identity, fault)
    IN  IF outcome = "ok"
        THEN [outcome |-> outcome, returned |-> TRUE, propagated |-> FALSE,
              service_calls |-> << "read" >>]
        ELSE [outcome |-> outcome, returned |-> FALSE, propagated |-> FALSE,
              service_calls |-> << "read" >>]
exists_draft(pid, identity, fault) ==
    LET outcome == ReadDraftOutcome(pid, identity, fault)
    IN  IF outcome = "ok"
        THEN [outcome |-> outcome, returned |-> TRUE, propagated |-> FALSE,
              service_calls |-> << "read_draft" >>]
        ELSE IF CaughtByExceptException(outcome)
        THEN [outcome |-> outcome, returned |-> FALSE, propagated |-> FALSE,
              service_calls |-> << "read_draft" >>]
        ELSE [outcome |-> outcome, returned |-> FALSE, propagated |-> TRUE,
              service_calls |-> << "read_draft" >>]

\* get_record_item: read, on NoResultFound read_draft, on NoResultFound
\* again RuntimeError; any other exception of read propagates
get_record_item(pid, identity) ==
    LET r == ReadOutcome(pid, identity, FALSE)
        d == ReadDraftOutcome(pid, identity, FALSE)
    IN  IF r = "ok" THEN [raised |-> "none", data |-> published[pid]]
        ELSE IF r = "not_found"
        THEN IF d = "ok" THEN [raised |-> "none", data |-> draft[pid]]
             ELSE IF d = "not_found"
             THEN [raised |-> "RuntimeError", data |-> DocMinimal]
             ELSE [raised |-> d, data |-> DocMinimal]
        ELSE [raised |-> r, data |-> DocMinimal]

get_data(pid, identity) == get_record_item(pid, identity).data

\* ------------------------------------------------------------------------
\* Initial state: r1 is a published record, with or without an open draft
\* (tests/conftest.py create_record, create_draft; the draft may have been
\* edited since) and may be restricted to the trusted process; r2 is
\* unknown or soft-deleted; no command is running.
\* ------------------------------------------------------------------------
NoUr == [pid |-> "r1", identity |-> AdminIdentity, new_data |-> DocMinimal,
         old_data |-> DocMinimal, do_publish |-> FALSE, error |-> "none"]
NoEntry == [published |-> DocMinimal, has_draft |-> FALSE, draft |-> DocMinimal]
NoProbe == [seen |-> [pid |-> "r1", identity |-> AdminIdentity,
                      outcome |-> "none", status |-> "absent",
                      may_read |-> FALSE],
            returned |-> FALSE, propagated |-> FALSE, service_calls |-> << >>]
NoBatch == [list |-> << >>, has_draft |-> [p \in PIDs |-> FALSE]]
NoResult == [kind |-> "none", exc |-> "none"]
NoHd == [handler |-> "none", arg |-> "none", read_data |-> DocMinimal,
         old_data |-> DocMinimal, new_data |-> DocMinimal]

\* nothing was written to an output file
NoOutfile == [opened |-> FALSE, text |-> << >>, records |-> << >>,
              falsy |-> {}]

\* the invocations of update_record that run concurrently, and one that
\* has not been called
Procs == {"A", "B"}

NoProc == [pc |-> "none", new_data |-> DocMinimal, old_data |-> DocMinimal,
           do_publish |-> FALSE, found |-> FALSE, error |-> "none"]

\* no concurrent invocation is running
NoInv == [original |-> DocMinimal, procs |-> [p \in Procs |-> NoProc]]

\* no option value has been converted
NoConv == [stage |-> "none"]

\* the file store of a record: metadata-only, no file
NoFiles == [p \in PIDs |-> [enabled |-> FALSE, names |-> {}, locked |-> TRUE]]

Init ==
    /\ status \in [PIDs -> {"absent", "published", "deleted"}]
    /\ status["r1"] = "published"
    /\ status["r2"] # "published"
    /\ published \in [PIDs -> InitDocs]
    /\ published["r2"] = IF status["r2"] = "absent" THEN DocMinimal ELSE DocDoi
    /\ restricted \in [PIDs -> BOOLEAN]
    /\ ~restricted["r2"]
    /\ has_draft \in [PIDs -> BOOLEAN]
    /\ ~has_draft["r2"]
    /\ draft \in [PIDs -> InitDocs]
    /\ \A p \in PIDs : ~has_draft[p] => draft[p] = DocMinimal
    /\ pc = "idle"
    /\ cmd = "none"
    /\ queue = << >>
    /\ ur = NoUr
    /\ entry = NoEntry
    /\ calls = << >>
    /\ result = NoResult
    /\ probe = NoProbe
    /\ hd = NoHd
    /\ output = << >>
    /\ ncmds = 0
    /\ roles \in SUBSET {"admin"}
    /\ idents = << >>
    /\ ident = NoIdent
    /\ cmd_error = ""
    /\ batch = NoBatch
    /\ files = NoFiles
    /\ flog = << >>
    /\ conv = NoConv
    /\ outfile = NoOutfile
    /\ inv = NoInv

\* ------------------------------------------------------------------------
\* update_record (repository_cli/utils.py), one action per service call
\* ------------------------------------------------------------------------

\* the handler calls update_record(service, pid, identity, new_data, old_data)
CallUpdateRecord(pid, identity, new_data, old_data) ==
    /\ ur' = [pid |-> pid, identity |-> identity, new_data |-> new_data,
              old_data |-> old_data, do_publish |-> FALSE, error |-> "none"]
    /\ entry' = [published |-> published[pid], has_draft |-> has_draft[pid],
                 draft |-> draft[pid]]
    /\ calls' = << >>
    /\ result' = NoResult
    /\ pc' = "ur_exists_draft"

\* "if not exists_draft(service, pid, identity):" -- where control goes
AfterExistsDraft_Inverted(found) == IF found THEN "ur_edit" ELSE "ur_update_draft"
AfterExistsDraft(found) == IF found THEN "ur_update_draft" ELSE "ur_edit"

\* do_publish = False; if not exists_draft(service, pid, identity): ...
UrExistsDraft ==
    /\ pc = "ur_exists_draft"
    /\ \E fault \in BOOLEAN :
         LET d == exists_draft(ur.pid, ur.identity, fault)
             found == d.returned
         IN  /\ calls' = Append(calls, [op |-> "read_draft", data |-> "none",
                                        ok |-> found, outcome |-> d.outcome,
                                        propagated |-> d.propagated,
                                        service_calls |-> d.service_calls])
             /\ pc' = AfterExistsDraft(found)
    /\ UNCHANGED process_vars
    /\ UNCHANGED << service_vars, cmd, queue, ur, entry, result, probe, hd,
                    output, ncmds >>
    /\ UNCHANGED ext_vars

\* service.edit is called before the try block: when it raises, the
\* exception leaves update_record at once
AfterEdit_InsideTry(ok) == IF ok THEN "ur_update_draft" ELSE "ur_compensate"
AfterEdit(ok) == IF ok THEN "ur_update_draft" ELSE "ur_raised"

\* service.edit(id_=pid, identity=identity); do_publish = True
UrEdit ==
    /\ pc = "ur_edit"
    /\ \E ok \in BOOLEAN :
         /\ calls' = Append(calls, [op |-> "edit", data |-> "none", ok |-> ok])
         /\ pc' = AfterEdit(ok)
         /\ IF ok
            THEN /\ draft' = [draft EXCEPT ![ur.pid] = EditDraft(ur.pid)]
                 /\ has_draft' = [has_draft EXCEPT ![ur.pid] = TRUE]
                 /\ ur' = [ur EXCEPT !.do_publish = TRUE]
                 /\ UNCHANGED result
            ELSE /\ IF AfterEdit(ok) = "ur_raised"
                    THEN /\ result' = [kind |-> "raised", exc |-> "edit"]
                         /\ UNCHANGED ur
                    ELSE /\ ur' = [ur EXCEPT !.error = "edit"]
                         /\ UNCHANGED result
                 /\ UNCHANGED << draft, has_draft >>
    /\ UNCHANGED process_vars
    /\ UNCHANGED << status, restricted, published, cmd, queue, entry, probe,
                    hd, output, ncmds >>
    /\ UNCHANGED ext_vars

\* "if do_publish:" -- where control goes after update_draft(new_data)
AfterUpdateDraft_AlwaysPublish(do_publish) == "ur_publish"
AfterUpdateDraft_NeverPublish(do_publish) == "ur_returned"
AfterUpdateDraft(do_publish) == IF do_publish THEN "ur_publish" ELSE "ur_returned"

\* try: service.update_draft(id_=pid, identity=identity, data=new_data)
UrUpdateDraft ==
    /\ pc = "ur_update_draft"
    /\ \E fault \in BOOLEAN :
         LET ok == has_draft[ur.pid] /\ ~fault
         IN  /\ calls' = Append(calls, [op |-> "update_draft", data |-> "new_data",
                                        ok |-> ok])
             /\ IF ok
                THEN /\ draft' = [draft EXCEPT ![ur.pid] = ur.new_data]
                     /\ pc' = AfterUpdateDraft(ur.do_publish)
                     /\ result' = IF AfterUpdateDraft(ur.do_publish) = "ur_returned"
                                  THEN [kind |-> "returned", exc |-> "none"]
                                  ELSE result
                     /\ UNCHANGED ur
                ELSE /\ ur' = [ur EXCEPT !.error = "update_draft"]
                     /\ pc' = "ur_compensate"
                     /\ UNCHANGED << draft, result >>
    /\ UNCHANGED process_vars
    /\ UNCHANGED << status, restricted, published, has_draft, cmd, queue,
                    entry, probe, hd, output, ncmds >>
    /\ UNCHANGED ext_vars

\* if do_publish: service.publish(id_=pid, identity=identity)
UrPublish ==
    /\ pc = "ur_publish"
    /\ \E fault \in BOOLEAN :
         LET ok == has_draft[ur.pid] /\ ~fault
         IN  /\ calls' = Append(calls, [op |-> "publish", data |-> "none", ok |-> ok])
             /\ IF ok
                THEN /\ published' = [published EXCEPT ![ur.pid] = draft[ur.pid]]
                     /\ has_draft' = [has_draft EXCEPT ![ur.pid] = FALSE]
                     /\ result' = [kind |-> "returned", exc |-> "none"]
                     /\ pc' = "ur_returned"
                     /\ UNCHANGED ur
                ELSE /\ ur' = [ur EXCEPT !.error = "publish"]
                     /\ pc' = "ur_compensate"
                     /\ UNCHANGED << published, has_draft, result >>
    /\ UNCHANGED process_vars
    /\ UNCHANGED << status, restricted, draft, cmd, queue, entry, probe, hd,
                    output, ncmds >>
    /\ UNCHANGED ext_vars

\* how the except block is left: by the exception of the compensating
\* write when that raises, else by "raise error"
CompensateExit_Swallow(ok, error) ==
    IF ok THEN [pc |-> "ur_returned", result |-> [kind |-> "returned", exc |-> "none"]]
    ELSE [pc |-> "ur_raised", result |-> [kind |-> "raised", exc |-> "compensate"]]
CompensateExit_Reraise(ok, error) ==
    [pc |-> "ur_raised", result |-> [kind |-> "raised", exc |-> error]]
CompensateExit_NewError(ok, error) ==
    [pc |-> "ur_raised", result |-> [kind |-> "raised", exc |-> "compensate"]]
CompensateExit(ok, error) ==
    IF ok THEN [pc |-> "ur_raised", result |-> [kind |-> "raised", exc |-> error]]
    ELSE [pc |-> "ur_raised", result |-> [kind |-> "raised", exc |-> "compensate"]]

\* the data argument of the compensating write: data=old_data
CompensateData_NewData(new_data, old_data) == new_data
CompensateData(new_data, old_data) == old_data

\* whether the draft is open after the except block: the block writes to the
\* draft and never calls delete_draft
CompensateDraft_Discard(open) == FALSE
CompensateDraft(open) == open

\* except Exception as error:
\*     service.update_draft(id_=pid, identity=identity, data=old_data)
\*     raise error
UrCompensate ==
    /\ pc = "ur_compensate"
    /\ \E fault \in BOOLEAN :
         LET ok == has_draft[ur.pid] /\ ~fault
         IN  /\ calls' = Append(calls, [op |-> "update_draft", data |-> "old_data",
                                        ok |-> ok])
             /\ draft' = IF ok
                         THEN [draft EXCEPT ![ur.pid] =
                                 CompensateData(ur.new_data, ur.old_data)]
                         ELSE draft
             /\ result' = CompensateExit(ok, ur.error).result
             /\ pc' = CompensateExit(ok, ur.error).pc
    /\ has_draft' = [has_draft EXCEPT ![ur.pid] = CompensateDraft(@)]
    /\ UNCHANGED process_vars
    /\ UNCHANGED << status, restricted, published, cmd, queue, ur,
                    entry, probe, hd, output, ncmds >>
    /\ UNCHANGED ext_vars

\* ------------------------------------------------------------------------
\* Python objects of a handler: a document read from the service is a dict
\* whose values are references to a metadata dict, an identifiers list and
\* a pids dict.  dict.copy() copies the references, not the objects.
\* ------------------------------------------------------------------------

\* service.read(...).data: a fresh object graph ("l1" is the list that
\* .get("identifiers", []) creates when the key is missing)
LoadHeap(doc) ==
    [meta  |-> [m0 |-> [has_identifiers |-> doc.has_identifiers,
                        identifiers |-> "l0"]],
     lists |-> [l0 |-> doc.identifiers, l1 |-> << >>],
     pids  |-> [p0 |-> doc.pids]]

LoadTop == [metadata |-> "m0", pids |-> "p0"]

\* dict.copy(): a new top-level dict with the same references
ShallowCopy(top) == [metadata |-> top.metadata, pids |-> top.pids]

\* the JSON value a top-level dict denotes in a heap
Value(heap, top) ==
    LET m == heap.meta[top.metadata]
    IN  [has_identifiers |-> m.has_identifiers,
         identifiers |-> IF m.has_identifiers THEN heap.lists[m.identifiers]
                         ELSE << >>,
         pids |-> heap.pids[top.pids]]

\* record_data["metadata"].get("identifiers", [])
GetIdentifiers(heap, top) ==
    IF heap.meta[top.metadata].has_identifiers
    THEN heap.meta[top.metadata].identifiers
    ELSE "l1"

\* list.append(x) and list[index] = x
ListAppend(heap, ref, x) ==
    [heap EXCEPT !.lists[ref] = Append(@, x)]
ListSet(heap, ref, index, x) ==
    [heap EXCEPT !.lists[ref][index] = x]

\* record_data["metadata"]["identifiers"] = current_identifiers
SetIdentifiers(heap, top, ref) ==
    [heap EXCEPT !.meta[top.metadata] =
        [has_identifiers |-> TRUE, identifiers |-> ref]]

\* pids[pid_key] = value
PidsSet(heap, ref, key, value) ==
    [heap EXCEPT !.pids[ref][key] = value]

SchemesOf(list) == {list[i].scheme : i \in DOMAIN list}

\* index of the first entry of the scheme (0 when there is none)
FirstIndex(list, scheme) ==
    IF scheme \in SchemesOf(list)
    THEN CHOOSE i \in DOMAIN list :
            /\ list[i].scheme = scheme
            /\ \A j \in 1..(i - 1) : list[j].scheme # scheme
    ELSE 0

\* identifiers add, from the read to the call of update_record
IdentifiersAddBuild_NoSchemeCheck(doc, identifier) ==
    LET h0 == LoadHeap(doc)
        record_data == ShallowCopy(LoadTop)
        current_identifiers == GetIdentifiers(h0, record_data)
        old_data == ShallowCopy(record_data)
        h1 == ListAppend(h0, current_identifiers, identifier)
        h2 == SetIdentifiers(h1, record_data, current_identifiers)
    IN  [called |-> TRUE, msg |-> "",
         new_data |-> Value(h2, record_data),
         old_data |-> Value(h2, old_data)]
IdentifiersAddBuild(doc, identifier) ==
    LET h0 == LoadHeap(doc)
        record_data == ShallowCopy(LoadTop)
        current_identifiers == GetIdentifiers(h0, record_data)
        current_schemes == SchemesOf(h0.lists[current_identifiers])
        old_data == ShallowCopy(record_data)
        h1 == ListAppend(h0, current_identifiers, identifier)
        h2 == SetIdentifiers(h1, record_data, current_identifiers)
    IN  IF identifier.scheme \in current_schemes
        THEN [called |-> FALSE, msg |-> "scheme '" \o identifier.scheme \o "' already in identifiers",
              new_data |-> doc, old_data |-> doc]
        ELSE [called |-> TRUE, msg |-> "",
              new_data |-> Value(h2, record_data),
              old_data |-> Value(h2, old_data)]

\* identifiers replace, from the read to the call of update_record
IdentifiersReplaceBuild_LastMatch(doc, identifier) ==
    LET h0 == LoadHeap(doc)
        record_data == ShallowCopy(LoadTop)
        current_identifiers == GetIdentifiers(h0, record_data)
        list == h0.lists[current_identifiers]
        replaced == identifier.scheme \in SchemesOf(list)
        index == IF replaced
                 THEN CHOOSE i \in DOMAIN list :
                         /\ list[i].scheme = identifier.scheme
                         /\ \A j \in (i + 1)..Len(list) :
                               list[j].scheme # identifier.scheme
                 ELSE 0
        h1 == IF replaced
              THEN ListSet(h0, current_identifiers, index, identifier)
              ELSE h0
        old_data == ShallowCopy(record_data)
        h2 == SetIdentifiers(h1, record_data, current_identifiers)
    IN  IF ~replaced
        THEN [called |-> FALSE,
              msg |-> "scheme '" \o identifier.scheme \o "' not in identifiers",
              new_data |-> doc, old_data |-> doc]
        ELSE [called |-> TRUE, msg |-> "",
              new_data |-> Value(h2, record_data),
              old_data |-> Value(h2, old_data)]
IdentifiersReplaceBuild(doc, identifier) ==
    LET h0 == LoadHeap(doc)
        record_data == ShallowCopy(LoadTop)
        current_identifiers == GetIdentifiers(h0, record_data)
        index == FirstIndex(h0.lists[current_identifiers], identifier.scheme)
        replaced == index # 0
        h1 == IF replaced
              THEN ListSet(h0, current_identifiers, index, identifier)
              ELSE h0
        old_data == ShallowCopy(record_data)
        h2 == SetIdentifiers(h1, record_data, current_identifiers)
    IN  IF ~replaced
        THEN [called |-> FALSE, msg |-> "scheme '" \o identifier.scheme \o "' not in identifiers",
              new_data |-> doc, old_data |-> doc]
        ELSE [called |-> TRUE, msg |-> "",
              new_data |-> Value(h2, record_data),
              old_data |-> Value(h2, old_data)]

\* pids replace, from the read to the call of update_record
\* (pid_identifier is {pid_key: value})
ReplacePidBuild_NoKeyCheck(doc, pid_key, value) ==
    LET h0 == LoadHeap(doc)
        old_data == ShallowCopy(LoadTop)
        new_data == ShallowCopy(old_data)
        pids == new_data.pids
        h1 == PidsSet(h0, pids, pid_key, value)
        new_data2 == [new_data EXCEPT !.pids = pids]
    IN  [called |-> TRUE, msg |-> "",
         new_data |-> Value(h1, new_data2),
         old_data |-> Value(h1, old_data)]
ReplacePidBuild(doc, pid_key, value) ==
    LET h0 == LoadHeap(doc)
        old_data == ShallowCopy(LoadTop)
        new_data == ShallowCopy(old_data)
        pids == new_data.pids
        h1 == PidsSet(h0, pids, pid_key, value)
        new_data2 == [new_data EXCEPT !.pids = pids]
    IN  IF h0.pids[pids][pid_key] = NoPid
        THEN [called |-> FALSE, msg |-> "does not have pid identifier '" \o pid_key \o "'",
              new_data |-> doc, old_data |-> doc]
        ELSE [called |-> TRUE, msg |-> "",
              new_data |-> Value(h1, new_data2),
              old_data |-> Value(h1, old_data)]

\* service.config.pids_providers: per pid type, the keys of its providers
\* mapping, e.g. {'doi': {'default': 'datacite', 'datacite': DataCiteProvider}}
ProvidersConfig == [t \in {"doi"} |-> {"default", "datacite", "unmanaged"}]

AddProviders == {"unmanaged", "crossref"}

\* the --pid-identifier option of pids add: {type: {identifier, provider}},
\* or a JSON value that cannot be destructured that way
IllFormed == [form |-> "ill", type |-> "", identifier |-> "", provider |-> ""]
PidIdentifier ==
    [form : {"ok"}, type : PidKeys, identifier : {"10.1/x"},
     provider : AddProviders] \cup {IllFormed}

\* pids add, from the destructuring of pid_identifier to the call of
\* update_record; doc is the document get_data returns
AddPidBuild_Overwrite(doc, pid_identifier) ==
    LET pid_type == pid_identifier.type
        old_data == doc
        new_data == [old_data EXCEPT !.pids[pid_type] =
                        [identifier |-> pid_identifier.identifier,
                         provider |-> pid_identifier.provider]]
        none == [called |-> FALSE, msgs |-> << >>, new_data |-> doc,
                 old_data |-> doc]
    IN  IF pid_identifier.form # "ok"
        THEN [none EXCEPT !.msgs =
                 << "received ill-formed pid-identifier",
                    "make sure it is of form {foo: {identifier: bar, provider: baz}}",
                    "further info" >>]
        ELSE IF pid_type \notin DOMAIN ProvidersConfig
        THEN [none EXCEPT !.msgs =
                 << "no configuration for pids for given type '" \o pid_type \o "'" >>]
        ELSE IF pid_identifier.provider \notin ProvidersConfig[pid_type]
        THEN [none EXCEPT !.msgs =
                 << "no configuration for provider '" \o pid_identifier.provider
                    \o "' of pid-type '" \o pid_type \o "'" >>]
        ELSE [called |-> TRUE, msgs |-> << >>, new_data |-> new_data,
              old_data |-> old_data]
AddPidBuild(doc, pid_identifier) ==
    LET pid_type == pid_identifier.type
        old_data == doc
        new_data == [old_data EXCEPT !.pids[pid_type] =
                        [identifier |-> pid_identifier.identifier,
                         provider |-> pid_identifier.provider]]
        none == [called |-> FALSE, msgs |-> << >>, new_data |-> doc,
                 old_data |-> doc]
    IN  IF pid_identifier.form # "ok"
        THEN [none EXCEPT !.msgs =
                 << "received ill-formed pid-identifier",
                    "make sure it is of form {foo: {identifier: bar, provider: baz}}",
                    "further info" >>]
        ELSE IF pid_type \notin DOMAIN ProvidersConfig
        THEN [none EXCEPT !.msgs =
                 << "no configuration for pids for given type '" \o pid_type \o "'" >>]
        ELSE IF pid_identifier.provider \notin ProvidersConfig[pid_type]
        THEN [none EXCEPT !.msgs =
                 << "no configuration for provider '" \o pid_identifier.provider
                    \o "' of pid-type '" \o pid_type \o "'" >>]
        ELSE IF old_data.pids[pid_type] # NoPid
        THEN [none EXCEPT !.msgs =
                 << "pid-identifier of pid-type '" \o pid_type
                    \o "' was already added" >>]
        ELSE [called |-> TRUE, msgs |-> << >>, new_data |-> new_data,
              old_data |-> old_data]

\* ------------------------------------------------------------------------
\* Command handlers (repository_cli/records/*.py).  A handler runs as one
\* step up to its call of update_record; the service.read that follows a
\* successful exists_record returns the published document.
\* ------------------------------------------------------------------------
Line(pid, msg) == [pid |-> pid, msg |-> msg]

\* an entry of the input file of records update; the document of an entry
\* whose PID is no live record is never looked at
Entry == {e \in [id : PIDs, doc : InputDocs] : e.id = "r2" => e.doc = DocMinimal}
Batches == UNION {[1..n -> Entry] : n \in 1..MaxBatch}

\* --input-file of modify-access and publish: a json array of ids
IdBatches == UNION {[1..n -> PIDs] : n \in 1..MaxBatch}

\* a command is started from the shell
StartCommand(name) ==
    /\ pc = "idle"
    /\ ncmds < MaxCommands
    /\ ncmds' = ncmds + 1
    /\ cmd' = name
    /\ roles' = roles
    /\ queue' \in IF name = "update" THEN Batches
                  ELSE IF name \in {"modify_access", "publish"} THEN IdBatches
                  ELSE {<< >>}
    /\ batch' = IF name = "update"
                THEN [list |-> queue', has_draft |-> has_draft]
                ELSE NoBatch

\* the handler returns before it calls update_record
EarlyReturn(lines) ==
    /\ output' = lines
    /\ pc' = "idle"
    /\ ur' = NoUr
    /\ entry' = NoEntry
    /\ calls' = << >>
    /\ result' = NoResult
    /\ hd' = NoHd
    /\ idents' = << >>

\* records identifiers list
ListIdentifiers ==
    /\ StartCommand("identifiers_list")
    /\ \E pid \in PIDs, fault \in BOOLEAN :
         LET g == get_identity("any_user", "")
             identity == g.provides
             p == exists_record(pid, identity, fault)
             current_identifiers == published[pid].identifiers
         IN  /\ ident' = g.call
             /\ cmd_error' = ""
             /\ probe' = p
             /\ IF ~p.returned
                THEN EarlyReturn(<< Line(pid, "does not exist or is deleted") >>)
                ELSE IF Len(current_identifiers) = 0
                THEN EarlyReturn(<< Line(pid, "record does not have any identifiers") >>)
                ELSE EarlyReturn([i \in DOMAIN current_identifiers |->
                                    Line(pid, current_identifiers[i].scheme)])
    /\ UNCHANGED service_vars
    /\ UNCHANGED ext_vars

\* records identifiers add, up to the call of update_record
IdentifiersAdd ==
    /\ StartCommand("identifiers_add")
    /\ \E pid \in PIDs, identifier \in Identifier, fault \in BOOLEAN :
         LET g == get_identity("system_process", "admin")
             identity == g.provides
             p == exists_record(pid, identity, fault)
             b == IdentifiersAddBuild(published[pid], identifier)
         IN  /\ ident' = g.call
             /\ cmd_error' = g.message
             /\ probe' = IF g.raised THEN NoProbe ELSE p
             /\ IF g.raised
                THEN EarlyReturn(<< >>)
                ELSE IF ~p.returned
                THEN EarlyReturn(<< Line(pid, "does not exist or is deleted") >>)
                ELSE IF ~b.called
                THEN EarlyReturn(<< Line(pid, b.msg) >>)
                ELSE /\ hd' = [handler |-> "identifiers_add", arg |-> identifier,
                               read_data |-> published[pid],
                               old_data |-> b.old_data, new_data |-> b.new_data]
                     /\ output' = << >>
                     /\ idents' = g.heap
                     /\ CallUpdateRecord(pid, identity, b.new_data, b.old_data)
    /\ UNCHANGED service_vars
    /\ UNCHANGED ext_vars

\* records identifiers replace, up to the call of update_record
IdentifiersReplace ==
    /\ StartCommand("identifiers_replace")
    /\ \E pid \in PIDs, identifier \in Identifier, fault \in BOOLEAN :
         LET g == get_identity("system_process", "admin")
             identity == g.provides
             p == exists_record(pid, identity, fault)
             b == IdentifiersReplaceBuild(published[pid], identifier)
         IN  /\ ident' = g.call
             /\ cmd_error' = g.message
             /\ probe' = IF g.raised THEN NoProbe ELSE p
             /\ IF g.raised
                THEN EarlyReturn(<< >>)
                ELSE IF ~p.returned
                THEN EarlyReturn(<< Line(pid, "does not exist or is deleted") >>)
                ELSE IF ~b.called
                THEN EarlyReturn(<< Line(pid, b.msg) >>)
                ELSE /\ hd' = [handler |-> "identifiers_replace", arg |-> identifier,
                               read_data |-> published[pid],
                               old_data |-> b.old_data, new_data |-> b.new_data]
                     /\ output' = << >>
                     /\ idents' = g.heap
                     /\ CallUpdateRecord(pid, identity, b.new_data, b.old_data)
    /\ UNCHANGED service_vars
    /\ UNCHANGED ext_vars

\* records pids replace, up to the call of update_record
ReplacePid ==
    /\ StartCommand("pids_replace")
    /\ \E pid \in PIDs, pid_key \in PidKeys, value \in PidValue,
          fault \in BOOLEAN :
         LET g == get_identity("system_process", "admin")
             identity == g.provides
             p == exists_record(pid, identity, fault)
             b == ReplacePidBuild(published[pid], pid_key, value)
         IN  /\ ident' = g.call
             /\ cmd_error' = g.message
             /\ probe' = IF g.raised THEN NoProbe ELSE p
             /\ IF g.raised
                THEN EarlyReturn(<< >>)
                ELSE IF ~p.returned
                THEN EarlyReturn(<< Line(pid, "does not exist or is deleted") >>)
                ELSE IF ~b.called
                THEN EarlyReturn(<< Line(pid, b.msg) >>)
                ELSE /\ hd' = [handler |-> "pids_replace",
                               arg |-> [key |-> pid_key, value |-> value],
                               read_data |-> published[pid],
                               old_data |-> b.old_data, new_data |-> b.new_data]
                     /\ output' = << >>
                     /\ idents' = g.heap
                     /\ CallUpdateRecord(pid, identity, b.new_data, b.old_data)
    /\ UNCHANGED service_vars
    /\ UNCHANGED ext_vars

\* records pids add (add_pid_to_record), up to the call of update_record
AddPid ==
    /\ StartCommand("pids_add")
    /\ \E pid \in PIDs, pid_identifier \in PidIdentifier, fault \in BOOLEAN :
         LET g == get_identity("system_process", "admin")
             identity == g.provides
             p == exists_record(pid, identity, fault)
             b == AddPidBuild(get_data(pid, identity), pid_identifier)
         IN  /\ ident' = g.call
             /\ cmd_error' = g.message
             /\ probe' = IF g.raised THEN NoProbe ELSE p
             /\ IF g.raised
                THEN EarlyReturn(<< >>)
                ELSE IF ~p.returned
                THEN EarlyReturn(<< Line(pid, "does not exist or was deleted") >>)
                ELSE IF ~b.called
                THEN EarlyReturn([i \in DOMAIN b.msgs |-> Line(pid, b.msgs[i])])
                ELSE /\ hd' = [handler |-> "pids_add", arg |-> pid_identifier,
                               read_data |-> published[pid],
                               old_data |-> b.old_data, new_data |-> b.new_data]
                     /\ output' = << >>
                     /\ idents' = g.heap
                     /\ CallUpdateRecord(pid, identity, b.new_data, b.old_data)
    /\ UNCHANGED service_vars
    /\ UNCHANGED ext_vars

\* except Exception as error: secho(...); return / secho(success)
\* of the handlers that update one record
SingleReport ==
    /\ pc \in {"ur_returned", "ur_raised"}
    /\ cmd \in {"identifiers_add", "identifiers_replace", "pids_replace",
               "pids_add"}
    /\ output' = Append(output,
                    Line(ur.pid, IF pc = "ur_raised" THEN "problem during update"
                                 ELSE "successfully updated"))
    /\ pc' = "idle"
    /\ idents' = << >>
    /\ UNCHANGED << roles, ident, cmd_error, batch >>
    /\ UNCHANGED << service_vars, cmd, queue, ur, entry, calls, result, probe,
                    hd, ncmds >>
    /\ UNCHANGED ext_vars

\* records update: the command is started with the parsed input file
RecordsUpdate ==
    /\ StartCommand("update")
    /\ LET g == get_identity("system_process", "admin")
       IN  /\ ident' = g.call
           /\ cmd_error' = g.message
           /\ idents' = IF g.raised THEN << >> ELSE g.heap
           /\ pc' = IF g.raised THEN "idle" ELSE "update_loop"
    /\ output' = << >>
    /\ ur' = NoUr
    /\ entry' = NoEntry
    /\ calls' = << >>
    /\ result' = NoResult
    /\ hd' = NoHd
    /\ probe' = NoProbe
    /\ UNCHANGED service_vars
    /\ UNCHANGED ext_vars

\* records update: one pass of "for record in records", up to the call of
\* update_record
UpdateNext ==
    /\ pc = "update_loop"
    /\ queue # << >>
    /\ \E fault \in BOOLEAN :
         LET record == Head(queue)
             pid == record.id
             identity == ident.provides
             p == exists_record(pid, identity, fault)
             old_data == get_data(pid, identity)
             trying == Append(output, Line(pid, "trying to update"))
         IN  /\ probe' = p
             /\ IF ~p.returned
                THEN /\ output' = Append(trying,
                                     Line(pid, "does not exist or is deleted"))
                     /\ queue' = Tail(queue)
                     /\ pc' = "update_loop"
                     /\ ur' = NoUr
                     /\ entry' = NoEntry
                     /\ calls' = << >>
                     /\ result' = NoResult
                     /\ hd' = NoHd
                ELSE /\ hd' = [handler |-> "update", arg |-> record,
                               read_data |-> published[pid],
                               old_data |-> old_data, new_data |-> record.doc]
                     /\ output' = trying
                     /\ UNCHANGED queue
                     /\ CallUpdateRecord(pid, identity, record.doc, old_data)
    /\ UNCHANGED process_vars
    /\ UNCHANGED << service_vars, cmd, ncmds >>
    /\ UNCHANGED ext_vars

\* records update: the except clause or the success line, then "continue"
UpdateReport_AbortOnFailure ==
    /\ pc \in {"ur_returned", "ur_raised"}
    /\ cmd = "update"
    /\ output' = Append(output,
                    Line(ur.pid, IF pc = "ur_raised" THEN "problem during update"
                                 ELSE "successfully updated"))
    /\ queue' = Tail(queue)
    /\ pc' = IF pc = "ur_raised" THEN "idle" ELSE "update_loop"
    /\ UNCHANGED process_vars
    /\ UNCHANGED << service_vars, cmd, ur, entry, calls, result, probe, hd,
                    ncmds >>
    /\ UNCHANGED ext_vars
UpdateReport ==
    /\ pc \in {"ur_returned", "ur_raised"}
    /\ cmd = "update"
    /\ output' = Append(output,
                    Line(ur.pid, IF pc = "ur_raised" THEN "problem during update"
                                 ELSE "successfully updated"))
    /\ queue' = Tail(queue)
    /\ pc' = "update_loop"
    /\ UNCHANGED process_vars
    /\ UNCHANGED << service_vars, cmd, ur, entry, calls, result, probe, hd,
                    ncmds >>
    /\ UNCHANGED ext_vars

\* records update: the loop is over, the command returns
UpdateDone ==
    /\ pc = "update_loop"
    /\ queue = << >>
    /\ pc' = "idle"
    /\ idents' = << >>
    /\ UNCHANGED << roles, ident, cmd_error, batch >>
    /\ UNCHANGED << service_vars, cmd, queue, ur, entry, calls, result, probe,
                    hd, output, ncmds >>
    /\ UNCHANGED ext_vars

\* records modify-access: the command is started with the list of ids
ModifyAccess ==
    /\ StartCommand("modify_access")
    /\ \E access_record \in {"public", "restricted"} :
         LET g == get_identity("system_process", "admin")
         IN  /\ ident' = g.call
             /\ cmd_error' = g.message
             /\ idents' = IF g.raised THEN << >> ELSE g.heap
             /\ pc' = IF g.raised THEN "idle" ELSE "access_loop"
             /\ hd' = [NoHd EXCEPT !.handler = "modify_access",
                                   !.arg = access_record]
    /\ output' = << >>
    /\ ur' = NoUr
    /\ entry' = NoEntry
    /\ calls' = << >>
    /\ result' = NoResult
    /\ probe' = NoProbe
    /\ UNCHANGED service_vars
    /\ UNCHANGED ext_vars

\* records modify-access: one pass of "for rec_id in record_ids": read, edit,
\* update_draft, publish; an exception of any of them leaves the command
ModifyAccessNext ==
    /\ pc = "access_loop"
    /\ queue # << >>
    /\ \E step \in {"none", "read", "edit", "update_draft", "publish"} :
         LET rec_id == Head(queue)
             identity == ident.provides
             failed == IF ReadOutcome(rec_id, identity, step = "read") # "ok"
                       THEN "read" ELSE step
             data == published[rec_id]
             ops == << "read", "edit", "update_draft", "publish" >>
             last == IF failed = "none" THEN 4
                     ELSE CHOOSE i \in 1..4 : ops[i] = failed
         IN  /\ calls' = [i \in 1..last |->
                            [op |-> ops[i], data |-> "none",
                             ok |-> ops[i] # failed]]
             /\ has_draft' = [has_draft EXCEPT ![rec_id] =
                                 IF failed \in {"update_draft", "publish"}
                                 THEN TRUE
                                 ELSE IF failed = "none" THEN FALSE ELSE @]
             /\ draft' = [draft EXCEPT ![rec_id] =
                             IF failed = "update_draft" THEN EditDraft(rec_id)
                             ELSE IF failed \in {"publish", "none"} THEN data
                             ELSE @]
             /\ restricted' = [restricted EXCEPT ![rec_id] =
                                  IF failed = "none"
                                  THEN hd.arg = "restricted" ELSE @]
             /\ result' = IF failed = "none"
                          THEN [kind |-> "returned", exc |-> "none"]
                          ELSE [kind |-> "raised", exc |-> failed]
             /\ cmd_error' = IF failed = "none" THEN ""
                             ELSE failed \o " raised"
             /\ pc' = IF failed = "none" THEN "access_loop" ELSE "idle"
             /\ queue' = IF failed = "none" THEN Tail(queue) ELSE queue
             /\ idents' = IF failed = "none" THEN idents ELSE << >>
    /\ UNCHANGED << status, published, cmd, ur, entry, probe, hd, output,
                    ncmds, roles, ident, batch >>
    /\ UNCHANGED ext_vars

\* records publish: the command is started with the list of ids
PublishRecords ==
    /\ StartCommand("publish")
    /\ LET g == get_identity("system_process", "admin")
       IN  /\ ident' = g.call
           /\ cmd_error' = g.message
           /\ idents' = IF g.raised THEN << >> ELSE g.heap
           /\ pc' = IF g.raised THEN "idle" ELSE "publish_loop"
    /\ output' = << >>
    /\ ur' = NoUr
    /\ entry' = NoEntry
    /\ calls' = << >>
    /\ result' = NoResult
    /\ hd' = NoHd
    /\ probe' = NoProbe
    /\ UNCHANGED service_vars
    /\ UNCHANGED ext_vars

\* records publish: one pass of "for rec_id in record_ids"; an exception of
\* service.publish leaves the command
PublishNext ==
    /\ pc = "publish_loop"
    /\ queue # << >>
    /\ \E fault \in BOOLEAN :
         LET rec_id == Head(queue)
             ok == status[rec_id] = "published" /\ has_draft[rec_id] /\ ~fault
         IN  /\ calls' = << [op |-> "publish", data |-> "none", ok |-> ok] >>
             /\ IF ok
                THEN /\ published' = [published EXCEPT ![rec_id] = draft[rec_id]]
                     /\ has_draft' = [has_draft EXCEPT ![rec_id] = FALSE]
                     /\ output' = Append(output, Line(rec_id, "published"))
                     /\ result' = [kind |-> "returned", exc |-> "none"]
                     /\ queue' = Tail(queue)
                     /\ pc' = "publish_loop"
                     /\ UNCHANGED << cmd_error, idents >>
                ELSE /\ result' = [kind |-> "raised", exc |-> "publish"]
                     /\ cmd_error' = "publish raised"
                     /\ pc' = "idle"
                     /\ idents' = << >>
                     /\ UNCHANGED << published, has_draft, output, queue >>
    /\ UNCHANGED << status, restricted, draft, cmd, ur, entry, probe, hd,
                    ncmds, roles, ident, batch >>
    /\ UNCHANGED ext_vars

\* modify-access, publish: the loop is over, the command returns
IdsDone ==
    /\ pc \in {"access_loop", "publish_loop"}
    /\ queue = << >>
    /\ pc' = "idle"
    /\ idents' = << >>
    /\ UNCHANGED << service_vars, cmd, queue, ur, entry, calls, result, probe,
                    hd, output, ncmds, roles, ident, cmd_error, batch >>
    /\ UNCHANGED ext_vars

\* ------------------------------------------------------------------------
\* Specification
\* ------------------------------------------------------------------------
Next ==
    \/ ListIdentifiers
    \/ IdentifiersAdd
    \/ IdentifiersReplace
    \/ ReplacePid
    \/ AddPid
    \/ SingleReport
    \/ RecordsUpdate
    \/ UpdateNext
    \/ UpdateReport
    \/ UpdateDone
    \/ ModifyAccess
    \/ ModifyAccessNext
    \/ PublishRecords
    \/ PublishNext
    \/ IdsDone
    \/ UrExistsDraft
    \/ UrEdit
    \/ UrUpdateDraft
    \/ UrPublish
    \/ UrCompensate

Spec == Init /\ [][Next]_vars

\* ------------------------------------------------------------------------
\* get_identity called repeatedly by one process, with every permission
\* name and role name, against every role directory; no record exists.
\* ------------------------------------------------------------------------
MaxIdentities == 3

InitIdentity ==
    /\ status = [p \in PIDs |-> "absent"]
    /\ published = [p \in PIDs |-> DocMinimal]
    /\ restricted = [p \in PIDs |-> FALSE]
    /\ has_draft = [p \in PIDs |-> FALSE]
    /\ draft = [p \in PIDs |-> DocMinimal]
    /\ pc = "idle"
    /\ cmd = "none"
    /\ queue = << >>
    /\ ur = NoUr
    /\ entry = NoEntry
    /\ calls = << >>
    /\ result = NoResult
    /\ probe = NoProbe
    /\ hd = NoHd
    /\ output = << >>
    /\ ncmds = 0
    /\ roles \in SUBSET RoleNames
    /\ idents = << >>
    /\ ident = NoIdent
    /\ cmd_error = ""
    /\ batch = NoBatch
    /\ files = NoFiles
    /\ flog = << >>
    /\ conv = NoConv
    /\ outfile = NoOutfile
    /\ inv = NoInv

GetIdentity ==
    /\ Len(idents) < MaxIdentities
    /\ \E permission_name \in PermissionNames, role_name \in RoleNames \cup {""} :
         LET g == get_identity(permission_name, role_name)
         IN  /\ idents' = g.heap
             /\ ident' = g.call
             /\ cmd_error' = g.message
    /\ UNCHANGED << service_vars, pc, cmd, queue, ur, entry, calls, result,
                    probe, hd, output, ncmds, roles, batch >>
    /\ UNCHANGED ext_vars

NextIdentity == GetIdentity

SpecIdentity == InitIdentity /\ [][NextIdentity]_vars

TypeOK ==
    /\ pc \in {"idle", "update_loop", "access_loop", "publish_loop",
               "ur_exists_draft", "ur_edit",
               "ur_update_draft", "ur_publish", "ur_compensate",
               "ur_returned", "ur_raised"}
    /\ ncmds \in 0..MaxCommands
    /\ \A p \in PIDs : has_draft[p] => status[p] = "published"

\* ------------------------------------------------------------------------
\* The commands that build_command generates (generate_commands.py): the
\* handler calls update_record outside any try statement.
\* ------------------------------------------------------------------------

\* command_func, up to the call of update_record; update_func is a method of
\* the metadata class of the data model and may return any document
GeneratedCommand ==
    /\ StartCommand("generated")
    /\ \E pid \in PIDs, new_json \in InputDocs, fault \in BOOLEAN :
         LET g == get_identity("system_process", "admin")
             identity == g.provides
             p == exists_record(pid, identity, fault)
             old_json == get_data(pid, identity)
         IN  /\ ident' = g.call
             /\ cmd_error' = g.message
             /\ probe' = IF g.raised THEN NoProbe ELSE p
             /\ IF g.raised
                THEN EarlyReturn(<< >>)
                ELSE IF ~p.returned
                THEN EarlyReturn(<< Line(pid, "does not exist or was deleted") >>)
                ELSE /\ hd' = [handler |-> "generated", arg |-> new_json,
                               read_data |-> published[pid],
                               old_data |-> old_json, new_data |-> new_json]
                     /\ output' = << >>
                     /\ idents' = g.heap
                     /\ CallUpdateRecord(pid, identity, new_json, old_json)
    /\ UNCHANGED service_vars
    /\ UNCHANGED ext_vars

\* command_func after update_record: the success line, or the exception of
\* update_record leaving the command
GeneratedReport ==
    /\ pc \in {"ur_returned", "ur_raised"}
    /\ cmd = "generated"
    /\ output' = IF pc = "ur_raised" THEN output
                 ELSE Append(output, Line(ur.pid, "succesfully updated"))
    /\ cmd_error' = IF pc = "ur_raised" THEN "update_record raised" ELSE ""
    /\ pc' = "idle"
    /\ idents' = << >>
    /\ UNCHANGED << service_vars, cmd, queue, ur, entry, calls, result, probe,
                    hd, ncmds, roles, ident, batch >>
    /\ UNCHANGED ext_vars

NextGenerated ==
    \/ GeneratedCommand
    \/ GeneratedReport
    \/ UrExistsDraft
    \/ UrEdit
    \/ UrUpdateDraft
    \/ UrPublish
    \/ UrCompensate

SpecGenerated == Init /\ [][NextGenerated]_vars

\* ------------------------------------------------------------------------
\* The file commands (records/files.py; records.py delete_file,
\* replace_file, add_file are the same code).  The file store of a record
\* is modelled by its enabled flag, its file names and its lock; flog
\* records the calls the handler makes on the store and on the database.
\* ------------------------------------------------------------------------
FileNames == {"a.txt", "b.txt"}

FileStores ==
    {s \in [enabled : BOOLEAN, names : SUBSET FileNames, locked : {TRUE}] :
        ~s.enabled => s.names = {}}

FileCall(op, key) == [op |-> op, key |-> key]

\* r1 is a published record with any file store, r2 is unknown or deleted
InitFiles ==
    /\ status \in [PIDs -> {"absent", "published", "deleted"}]
    /\ status["r1"] = "published"
    /\ status["r2"] # "published"
    /\ published = [p \in PIDs |-> DocMinimal]
    /\ restricted \in [PIDs -> BOOLEAN]
    /\ ~restricted["r2"]
    /\ has_draft \in [PIDs -> BOOLEAN]
    /\ ~has_draft["r2"]
    /\ draft = [p \in PIDs |-> DocMinimal]
    /\ pc = "idle"
    /\ cmd = "none"
    /\ queue = << >>
    /\ ur = NoUr
    /\ entry = NoEntry
    /\ calls = << >>
    /\ result = NoResult
    /\ probe = NoProbe
    /\ hd = NoHd
    /\ output = << >>
    /\ ncmds = 0
    /\ roles \in SUBSET {"admin"}
    /\ idents = << >>
    /\ ident = NoIdent
    /\ cmd_error = ""
    /\ batch = NoBatch
    /\ files \in [PIDs -> FileStores]
    /\ files["r2"] = NoFiles["r2"]
    /\ flog = << >>
    /\ conv = NoConv
    /\ outfile = NoOutfile
    /\ inv = NoInv

\* the handler up to `files = record.files`: the identity, the record or
\* its draft, and `secho(error.msg)` in the handler of RuntimeError, which
\* raises AttributeError because RuntimeError has no attribute msg
FilesLookup(pid) ==
    LET g == get_identity("system_process", "admin")
        r == get_record_item(pid, g.provides)
    IN  IF g.raised
        THEN [found |-> FALSE, error |-> g.message, lines |-> << >>, g |-> g]
        ELSE IF r.raised = "RuntimeError"
        THEN [found |-> FALSE, error |-> "AttributeError raised",
              lines |-> << >>, g |-> g]
        ELSE IF r.raised # "none"
        THEN [found |-> FALSE, error |-> r.raised \o " raised",
              lines |-> << >>, g |-> g]
        ELSE [found |-> TRUE, error |-> "", lines |-> << >>, g |-> g]

\* what a file handler did: the lines it printed, the exception that ended
\* it, the store it leaves and the calls it made
FileResult(look, lines, store, log) ==
    [g |-> look.g, error |-> look.error, lines |-> lines, store |-> store,
     log |-> log]

AddCalls(filename) ==
    << FileCall("unlock", ""), FileCall("create", filename),
       FileCall("lock", ""), FileCall("record.commit", ""),
       FileCall("db.session.commit", "") >>

\* records files add
add_NoEnableCheck(pid, filename, enable_files) ==
    LET look == FilesLookup(pid)
        fs == files[pid]
    IN  IF ~look.found
        THEN FileResult(look, look.lines, fs, << >>)
        ELSE IF fs.enabled /\ filename \in fs.names
        THEN FileResult(look, << Line(pid, "File already exists") >>, fs, << >>)
        ELSE FileResult(look, << Line(pid, "File added successfully.") >>,
                 [enabled |-> TRUE, names |-> fs.names \cup {filename},
                  locked |-> TRUE],
                 AddCalls(filename))

add(pid, filename, enable_files) ==
    LET look == FilesLookup(pid)
        fs == files[pid]
    IN  IF ~look.found
        THEN FileResult(look, look.lines, fs, << >>)
        ELSE IF fs.enabled /\ filename \in fs.names
        THEN FileResult(look, << Line(pid, "File already exists") >>, fs, << >>)
        ELSE IF ~fs.enabled /\ ~enable_files
        THEN FileResult(look, << Line(pid, "Use --enable-files") >>, fs, << >>)
        ELSE FileResult(look, << Line(pid, "File added successfully.") >>,
                 [enabled |-> TRUE, names |-> fs.names \cup {filename},
                  locked |-> TRUE],
                 AddCalls(filename))

\* records files delete
delete(pid, filename) ==
    LET look == FilesLookup(pid)
        fs == files[pid]
    IN  IF ~look.found
        THEN FileResult(look, look.lines, fs, << >>)
        ELSE IF filename \notin fs.names
        THEN FileResult(look, << Line(pid, "File not found") >>, fs, << >>)
        ELSE FileResult(look, << Line(pid, "File deleted successfully") >>,
                 [fs EXCEPT !.names = @ \ {filename}],
                 << FileCall("unlock", ""), FileCall("delete", filename),
                    FileCall("lock", ""), FileCall("record.commit", ""),
                    FileCall("db.session.commit", "") >>)

ReplaceCalls(filename) ==
    << FileCall("unlock", ""), FileCall("delete", filename),
       FileCall("create", filename), FileCall("lock", ""),
       FileCall("record.commit", ""), FileCall("db.session.commit", "") >>

\* records files replace
replace(pid, input_name, override_name_match_check) ==
    LET look == FilesLookup(pid)
        fs == files[pid]
        only == CHOOSE n \in fs.names : TRUE
    IN  IF ~look.found
        THEN FileResult(look, look.lines, fs, << >>)
        ELSE IF input_name \in fs.names
        THEN FileResult(look, << Line(pid, "File replaced successfully.") >>,
                        fs, ReplaceCalls(input_name))
        ELSE IF override_name_match_check /\ Cardinality(fs.names) = 1
        THEN FileResult(look, << Line(pid, "File replaced successfully.") >>,
                        fs, ReplaceCalls(only))
        ELSE IF Cardinality(fs.names) > 1
        THEN FileResult(look, << Line(pid, "more than 1 file and no matching found") >>,
                        fs, << >>)
        ELSE FileResult(look, << Line(pid, "filename does not match") >>,
                        fs, << >>)

\* the command has run: what it leaves in the state
FilesCommand(pid, arg, r) ==
    /\ UNCHANGED << conv, outfile, inv >>
    /\ ident' = r.g.call
    /\ cmd_error' = r.error
    /\ probe' = NoProbe
    /\ output' = r.lines
    /\ pc' = "idle"
    /\ ur' = [NoUr EXCEPT !.pid = pid]
    /\ entry' = NoEntry
    /\ calls' = << >>
    /\ result' = NoResult
    /\ idents' = << >>
    /\ hd' = [NoHd EXCEPT !.handler = cmd', !.arg = arg]
    /\ files' = [files EXCEPT ![pid] = r.store]
    /\ flog' = r.log
    /\ UNCHANGED service_vars

FilesAdd ==
    /\ StartCommand("files_add")
    /\ \E pid \in PIDs, filename \in FileNames, enable_files \in BOOLEAN :
        FilesCommand(pid,
                     [filename |-> filename, enable_files |-> enable_files,
                      before |-> files[pid]],
                     add(pid, filename, enable_files))

FilesDelete ==
    /\ StartCommand("files_delete")
    /\ \E pid \in PIDs, filename \in FileNames :
        FilesCommand(pid,
                     [filename |-> filename, before |-> files[pid]],
                     delete(pid, filename))

FilesReplace ==
    /\ StartCommand("files_replace")
    /\ \E pid \in PIDs, filename \in FileNames, override \in BOOLEAN :
        FilesCommand(pid,
                     [filename |-> filename, override |-> override,
                      before |-> files[pid]],
                     replace(pid, filename, override))

NextFiles ==
    \/ FilesAdd
    \/ FilesDelete
    \/ FilesReplace

SpecFiles == InitFiles /\ [][NextFiles]_vars

\* ------------------------------------------------------------------------
\* The commands that delete: records delete-draft and records delete
\* (records.py, records/records.py) and their legacy forms (cli/records.py).
\* ------------------------------------------------------------------------

\* service.delete_draft: "ok", NoResultFound when the record has no draft,
\* PIDDoesNotExistError when the PID is unknown; what it raises for a
\* soft-deleted record is one of the two (tombstone)
DeleteDraftOutcome(pid, tombstone) ==
    IF status[pid] = "absent" THEN "PIDDoesNotExistError"
    ELSE IF status[pid] = "deleted" THEN tombstone
    ELSE IF ~has_draft[pid] THEN "NoResultFound"
    ELSE "ok"

ServiceCall(op, ok) == [op |-> op, data |-> DocMinimal, ok |-> ok]

\* what a deleting handler did: lines, exception, service calls
DeleteResult(g, error, lines, service_calls) ==
    [g |-> g, error |-> error, lines |-> lines, calls |-> service_calls,
     probe |-> NoProbe]

\* records delete-draft (records.py)
delete_draft(pid, tombstone) ==
    LET g == get_identity("system_process", "admin")
        outcome == DeleteDraftOutcome(pid, tombstone)
    IN  IF g.raised
        THEN DeleteResult(g, g.message, << >>, << >>)
        ELSE IF outcome = "NoResultFound"
        THEN DeleteResult(g, "", << Line(pid, "does not have a draft") >>,
                          << ServiceCall("delete_draft", FALSE) >>)
        ELSE IF outcome = "PIDDoesNotExistError"
        THEN DeleteResult(g, "", << Line(pid, "does not exists") >>,
                          << ServiceCall("delete_draft", FALSE) >>)
        ELSE DeleteResult(g, "", << Line(pid, "deleted draft") >>,
                          << ServiceCall("delete_draft", TRUE) >>)

\* cli/util.py record_exists: a read under get_identity(), the identity of
\* any caller
record_exists(pid) ==
    exists_record(pid, get_identity("any_user", "").provides, FALSE).returned

\* cli/util.py get_draft: the draft, or None
get_draft(pid, identity) ==
    ReadDraftOutcome(pid, identity, FALSE) = "ok"

\* rdmrecords delete-draft (cli/records.py)
legacy_delete_draft(pid, tombstone) ==
    LET g == get_identity("system_process", "admin")
    IN  IF ~record_exists(pid)
        THEN DeleteResult([g EXCEPT !.call = get_identity("any_user", "").call],
                          "", << Line(pid, "does not exist or is deleted") >>,
                          << ServiceCall("read", FALSE) >>)
        ELSE IF g.raised
        THEN DeleteResult(g, g.message, << >>, << ServiceCall("read", TRUE) >>)
        ELSE IF ~get_draft(pid, g.provides)
        THEN DeleteResult(g, "", << Line(pid, "does not have a draft") >>,
                          << ServiceCall("read", TRUE), ServiceCall("read", TRUE),
                             ServiceCall("read_draft", FALSE) >>)
        ELSE DeleteResult(g, "", << Line(pid, "deleted draft") >>,
                          << ServiceCall("read", TRUE), ServiceCall("read", TRUE),
                             ServiceCall("read_draft", TRUE),
                             ServiceCall("delete_draft", TRUE) >>)

\* the rows of the metadata table that list and count query:
\* model.query.filter_by(is_deleted=False), in the order of the table
RecordTypes == {"record", "draft"}

PidOrder == << "r1", "r2" >>

NotDeleted(record_type, p) ==
    IF record_type = "record" THEN status[p] = "published" ELSE has_draft[p]

RECURSIVE Query(_, _)
Query(record_type, i) ==
    IF i > Len(PidOrder) THEN << >>
    ELSE IF NotDeleted(record_type, PidOrder[i])
    THEN << PidOrder[i] >> \o Query(record_type, i + 1)
    ELSE Query(record_type, i + 1)

\* records.count()
count(record_type) == Len(Query(record_type, 1))

\* records delete (records.py)
delete_record(pid, fault) ==
    LET g == get_identity("system_process", "admin")
        p == exists_record(pid, g.provides, fault)
    IN  IF g.raised
        THEN DeleteResult(g, g.message, << >>, << >>)
        ELSE IF ~p.returned
        THEN [DeleteResult(g, "", << Line(pid, "does not exist or is deleted") >>,
                           << ServiceCall("read", FALSE) >>)
                EXCEPT !.probe = p]
        ELSE [DeleteResult(g, "", << Line(pid, "soft-deleted") >>,
                           << ServiceCall("read", TRUE),
                              ServiceCall("delete", TRUE) >>)
                EXCEPT !.probe = p]

\* records delete --record-type (records/records.py)
delete_records(pid, record_type, fault, tombstone) ==
    LET g == get_identity("system_process", "admin")
        p == exists_record(pid, g.provides, fault)
        outcome == DeleteDraftOutcome(pid, tombstone)
        r == IF ~p.returned
             THEN DeleteResult(g, "", << Line(pid, "does not exist or is deleted") >>,
                               << ServiceCall("read", FALSE) >>)
             ELSE IF record_type = "record"
             THEN DeleteResult(g, "", << Line(pid, "soft-deleted") >>,
                               << ServiceCall("read", TRUE),
                                  ServiceCall("delete", TRUE) >>)
             ELSE IF outcome = "NoResultFound"
             THEN DeleteResult(g, "", << Line(pid, "does not have a draft") >>,
                               << ServiceCall("read", TRUE),
                                  ServiceCall("delete_draft", FALSE) >>)
             ELSE IF outcome = "PIDDoesNotExistError"
             THEN DeleteResult(g, "", << Line(pid, "does not exists") >>,
                               << ServiceCall("read", TRUE),
                                  ServiceCall("delete_draft", FALSE) >>)
             ELSE DeleteResult(g, "", << Line(pid, "soft-deleted") >>,
                               << ServiceCall("read", TRUE),
                                  ServiceCall("delete_draft", TRUE) >>)
    IN  IF g.raised
        THEN DeleteResult(g, g.message, << >>, << >>)
        ELSE [r EXCEPT !.probe = p]

Did(r, op) == \E i \in DOMAIN r.calls : r.calls[i].op = op /\ r.calls[i].ok

\* the command has run: what it leaves in the state
DeleteCommand(pid, r) ==
    /\ ident' = r.g.call
    /\ cmd_error' = r.error
    /\ probe' = r.probe
    /\ output' = r.lines
    /\ pc' = "idle"
    /\ ur' = [NoUr EXCEPT !.pid = pid]
    /\ entry' = [published |-> published[pid], has_draft |-> has_draft[pid],
                 draft |-> draft[pid]]
    /\ calls' = r.calls
    /\ result' = NoResult
    /\ idents' = << >>
    /\ hd' = [NoHd EXCEPT !.handler = cmd',
                          !.arg = [status |-> status[pid],
                                   restricted |-> restricted[pid],
                                   count |-> count("record")]]
    /\ has_draft' = IF Did(r, "delete_draft") \/ Did(r, "delete")
                    THEN [has_draft EXCEPT ![pid] = FALSE] ELSE has_draft
    /\ draft' = IF Did(r, "delete_draft") \/ Did(r, "delete")
                THEN [draft EXCEPT ![pid] = DocMinimal] ELSE draft
    /\ status' = IF Did(r, "delete")
                 THEN [status EXCEPT ![pid] = "deleted"] ELSE status
    /\ UNCHANGED << restricted, published >>
    /\ UNCHANGED ext_vars

DeleteDraft ==
    /\ StartCommand("delete_draft")
    /\ \E pid \in PIDs, tombstone \in {"NoResultFound", "PIDDoesNotExistError"} :
        DeleteCommand(pid, delete_draft(pid, tombstone))

LegacyDeleteDraft ==
    /\ StartCommand("legacy_delete_draft")
    /\ \E pid \in PIDs, tombstone \in {"NoResultFound", "PIDDoesNotExistError"} :
        DeleteCommand(pid,
                      legacy_delete_draft(pid, tombstone))

DeleteRecord ==
    /\ StartCommand("delete_record")
    /\ \E pid \in PIDs, fault \in BOOLEAN :
        DeleteCommand(pid, delete_record(pid, fault))

DeleteRecords ==
    /\ StartCommand("delete_records")
    /\ \E pid \in PIDs, record_type \in RecordTypes, fault \in BOOLEAN,
          tombstone \in {"NoResultFound", "PIDDoesNotExistError"} :
        DeleteCommand(pid,
                      delete_records(pid, record_type, fault, tombstone))

NextDelete ==
    \/ DeleteDraft
    \/ LegacyDeleteDraft
    \/ DeleteRecord
    \/ DeleteRecords

SpecDelete == Init /\ [][NextDelete]_vars

\* ------------------------------------------------------------------------
\* The JSON parameter type (click_param_types.py): click converts the value
\* of a JSON-typed option before it calls the handler.
\* ------------------------------------------------------------------------
ValidateKeys == << "identifier", "scheme" >>

KeySets == SUBSET {"identifier", "scheme"}

\* what json.load / json.loads can return: an object with some keys, an
\* array holding some strings, a string in which some keys occur, or a
\* scalar
JsonValues ==
    [type : {"object", "array", "string"}, has : KeySets]
        \cup [type : {"number", "null", "bool"}, has : {{}}]

\* a text: a well-formed JSON text denoting a value, or anything else
Texts ==
    [form : {"json"}, denotes : JsonValues]
        \cup {[form |-> "not json", denotes |-> [type |-> "null", has |-> {}]]}

\* an option value: a path to a file holding a text or bytes that are not
\* UTF-8, or a string that is no path to a file
OptionValues ==
    [is_file : {TRUE}, decodable : BOOLEAN, text : Texts]
        \cup [is_file : {FALSE}, decodable : {TRUE}, text : Texts]

\* the JSON-typed options and the keys they validate
JsonOptions == {"--identifier", "--pid-identifier", "--input-file"}

Validate(option) == IF option = "--identifier" THEN ValidateKeys ELSE << >>

InvalidJsonMsg == "ERROR - Invalid JSON provided. Check file path or json string."

_error_msg(key) ==
    "The given json does not validate, key: '" \o key \o "' does not exists"

\* json.load(file_pointer) / json.loads(value)
loads(value) ==
    IF value.is_file /\ ~value.decodable
    THEN [raised |-> "UnicodeDecodeError", obj |-> value.text.denotes]
    ELSE IF value.text.form # "json"
    THEN [raised |-> "JSONDecodeError", obj |-> value.text.denotes]
    ELSE [raised |-> "none", obj |-> value.text.denotes]

\* `key not in obj`: TypeError when obj is no container
NotIn(key, obj) ==
    IF obj.type \in {"number", "null", "bool"} THEN "TypeError"
    ELSE IF key \in obj.has THEN "false" ELSE "true"

\* the loop over self.validate, from the i-th key on
RECURSIVE ValidateFrom(_, _, _)
ValidateFrom(keys, i, obj) ==
    IF i > Len(keys) THEN [raised |-> "none", lines |-> << >>]
    ELSE LET t == NotIn(keys[i], obj)
         IN  IF t = "TypeError" THEN [raised |-> "TypeError", lines |-> << >>]
             ELSE IF t = "true"
             THEN [raised |-> "SystemExit", lines |-> << _error_msg(keys[i]) >>]
             ELSE ValidateFrom(keys, i + 1, obj)

\* JSON.convert; sys.exit() ends the process with exit code 0, any other
\* exception with exit code 1
convert(value, validate) ==
    LET l == loads(value)
        v == ValidateFrom(validate, 1, l.obj)
    IN  IF l.raised = "JSONDecodeError"
        THEN [raised |-> "SystemExit", exit_code |-> 0,
              lines |-> << InvalidJsonMsg, "  error:" >>]
        ELSE IF l.raised # "none"
        THEN [raised |-> l.raised, exit_code |-> 1, lines |-> << >>]
        ELSE [raised |-> v.raised,
              exit_code |-> IF v.raised = "TypeError" THEN 1 ELSE 0,
              lines |-> v.lines]

\* click converts the value of the option
Convert ==
    /\ conv.stage = "none"
    /\ \E option \in JsonOptions, value \in OptionValues :
         LET c == convert(value, Validate(option))
         IN  conv' = [stage |-> "converted", option |-> option, value |-> value,
                      raised |-> c.raised, exit_code |-> c.exit_code,
                      lines |-> c.lines]
    /\ UNCHANGED << service_vars, process_vars, pc, cmd, queue, ur, entry,
                    calls, result, probe, hd, output, ncmds, files, flog,
                    outfile, inv >>

\* click calls the handler with the converted value
HandlerBody ==
    /\ conv.stage = "converted"
    /\ conv.raised = "none"
    /\ conv' = [conv EXCEPT !.stage = "handler"]
    /\ UNCHANGED << service_vars, process_vars, pc, cmd, queue, ur, entry,
                    calls, result, probe, hd, output, ncmds, files, flog,
                    outfile, inv >>

NextJSON ==
    \/ Convert
    \/ HandlerBody

SpecJSON == InitIdentity /\ [][NextJSON]_vars

\* ------------------------------------------------------------------------
\* records list and records count (records/records.py; records.py is the
\* same code)
\* ------------------------------------------------------------------------

\* any set of records, with or without drafts
InitList ==
    /\ status \in [PIDs -> {"absent", "published", "deleted"}]
    /\ published = [p \in PIDs |-> DocMinimal]
    /\ restricted = [p \in PIDs |-> FALSE]
    /\ has_draft \in [PIDs -> BOOLEAN]
    /\ \A p \in PIDs : has_draft[p] => status[p] = "published"
    /\ draft = [p \in PIDs |-> DocMinimal]
    /\ pc = "idle"
    /\ cmd = "none"
    /\ queue = << >>
    /\ ur = NoUr
    /\ entry = NoEntry
    /\ calls = << >>
    /\ result = NoResult
    /\ probe = NoProbe
    /\ hd = NoHd
    /\ output = << >>
    /\ ncmds = 0
    /\ roles = {"admin"}
    /\ idents = << >>
    /\ ident = NoIdent
    /\ cmd_error = ""
    /\ batch = NoBatch
    /\ files = NoFiles
    /\ flog = << >>
    /\ conv = NoConv
    /\ outfile = NoOutfile
    /\ inv = NoInv

\* json.dump(output, output_file): the text of one element
Dump(pid) == [token |-> "json", of |-> pid]

Token(t) == [token |-> t, of |-> ""]

\* the loop of list_records over enumerate(records), from index on (index
\* counts from 0); falsy holds the records for which the first output of the
\* jq filter is false, null, empty or zero
RECURSIVE WriteFrom(_, _, _)
WriteFrom(records, index, falsy) ==
    LET num_records == Len(records)
    IN  IF index > num_records - 1 THEN << >>
        ELSE IF records[index + 1] \in falsy
        THEN WriteFrom(records, index + 1, falsy)
        ELSE << Dump(records[index + 1]) >>
                \o (IF index < num_records - 1 THEN << Token(",") >> ELSE << >>)
                \o WriteFrom(records, index + 1, falsy)

\* records list
ListRecords ==
    /\ StartCommand("list")
    /\ \E record_type \in RecordTypes, output_file \in BOOLEAN, quiet \in BOOLEAN,
          falsy \in SUBSET PIDs :
         LET records == Query(record_type, 1)
             shown == SelectSeq(records, LAMBDA p : p \notin falsy)
         IN  /\ outfile' = IF output_file
                           THEN [opened |-> TRUE,
                                 text |-> << Token("[") >>
                                            \o WriteFrom(records, 0, falsy)
                                            \o << Token("]") >>,
                                 records |-> records, falsy |-> falsy]
                           ELSE NoOutfile
             /\ EarlyReturn(
                  (IF output_file THEN << >>
                   ELSE [i \in DOMAIN shown |-> Line(shown[i], "json")])
                  \o (IF quiet THEN << >>
                      ELSE << Line("", IF output_file THEN "wrote records to file"
                                       ELSE "records") >>))
    /\ UNCHANGED << service_vars, probe, ident, cmd_error, files, flog, conv,
                    inv >>

\* records count
CountRecords ==
    /\ StartCommand("count")
    /\ \E record_type \in RecordTypes :
         /\ output' = << Line("", "records") >>
         /\ hd' = [NoHd EXCEPT !.handler = "count",
                               !.arg = [record_type |-> record_type,
                                        num_records |-> count(record_type)]]
         /\ pc' = "idle"
         /\ ur' = NoUr
         /\ entry' = NoEntry
         /\ calls' = << >>
         /\ result' = NoResult
         /\ idents' = << >>
    /\ UNCHANGED << service_vars, probe, ident, cmd_error, ext_vars >>

NextList ==
    \/ ListRecords
    \/ CountRecords

SpecList == InitList /\ [][NextList]_vars

\* ------------------------------------------------------------------------
\* The legacy update_record (cli/util.py), as a function of the record at
\* entry and of the outcome of each service step (TRUE: the step returns
\* when the service can carry it out; FALSE: it raises).
\* ------------------------------------------------------------------------
StepNames == {"read", "read_draft", "edit", "update_draft", "publish",
              "compensate"}

Outcomes == [StepNames -> BOOLEAN]

MutatingCall(op, data, ok) == [op |-> op, data |-> data, ok |-> ok]

LegacyRun(service_calls, e, raised) ==
    [calls |-> service_calls, published |-> e.published,
     has_draft |-> e.has_draft, draft |-> e.draft, raised |-> raised]

\* the data argument of the compensating write of the legacy version
LegacyCompensateData_NewData(new_data, old_data) == new_data
LegacyCompensateData(new_data, old_data) == old_data

\* try: update_draft(new_data); publish
\* except Exception as e: update_draft(old_data); raise e
LegacyTry(service_calls, e, new_data, old_data, o) ==
    LET u_ok == e.has_draft /\ o["update_draft"]
        e1 == IF u_ok THEN [e EXCEPT !.draft = new_data] ELSE e
        c1 == Append(service_calls, MutatingCall("update_draft", "new_data", u_ok))
        p_ok == e1.has_draft /\ o["publish"]
        c2 == Append(c1, MutatingCall("publish", "none", p_ok))
        failed == IF u_ok THEN c2 ELSE c1
        k_ok == e1.has_draft /\ o["compensate"]
        e3 == IF k_ok
              THEN [e1 EXCEPT !.draft = LegacyCompensateData(new_data, old_data)]
              ELSE e1
    IN  IF u_ok /\ p_ok
        THEN LegacyRun(c2, [e1 EXCEPT !.published = e1.draft, !.has_draft = FALSE],
                       FALSE)
        ELSE LegacyRun(Append(failed, MutatingCall("update_draft", "old_data", k_ok)),
                       e3, TRUE)

\* update_record of cli/util.py: get_draft reads the record, which raises
\* when the read fails, and then the draft; without a draft the record is
\* edited, outside the try statement
LegacyUpdateRecord(e, new_data, old_data, o) ==
    LET found == e.has_draft /\ o["read_draft"]
        opened == [e EXCEPT !.has_draft = TRUE,
                            !.draft = IF e.has_draft THEN e.draft ELSE e.published]
    IN  IF ~o["read"] THEN LegacyRun(<< >>, e, TRUE)
        ELSE IF found THEN LegacyTry(<< >>, e, new_data, old_data, o)
        ELSE IF ~o["edit"]
        THEN LegacyRun(<< MutatingCall("edit", "none", FALSE) >>, e, TRUE)
        ELSE LegacyTry(<< MutatingCall("edit", "none", TRUE) >>, opened,
                       new_data, old_data, o)

\* ------------------------------------------------------------------------
\* Two invocations of update_record (utils.py) on the same PID, by two
\* processes: every service call is one atomic step, the steps of the two
\* invocations interleave freely.
\* ------------------------------------------------------------------------
SharedPid == "r1"

\* r1 is published and has no draft
InitConcurrent ==
    /\ status = [p \in PIDs |-> IF p = SharedPid THEN "published" ELSE "absent"]
    /\ published \in [PIDs -> InitDocs]
    /\ published["r2"] = DocMinimal
    /\ restricted = [p \in PIDs |-> FALSE]
    /\ has_draft = [p \in PIDs |-> FALSE]
    /\ draft = [p \in PIDs |-> DocMinimal]
    /\ pc = "idle"
    /\ cmd = "none"
    /\ queue = << >>
    /\ ur = NoUr
    /\ entry = NoEntry
    /\ calls = << >>
    /\ result = NoResult
    /\ probe = NoProbe
    /\ hd = NoHd
    /\ output = << >>
    /\ ncmds = 0
    /\ roles = {"admin"}
    /\ idents = << >>
    /\ ident = NoIdent
    /\ cmd_error = ""
    /\ batch = NoBatch
    /\ files = NoFiles
    /\ flog = << >>
    /\ conv = NoConv
    /\ outfile = NoOutfile
    /\ inv = [original |-> published[SharedPid],
              procs |-> [p \in Procs |-> NoProc]]

\* what the steps of an invocation leave alone
InvFrame ==
    UNCHANGED << status, restricted, process_vars, pc, cmd, queue, ur, entry,
                 calls, result, probe, hd, output, ncmds, files, flog, conv,
                 outfile >>

SetProc(p, v) == inv' = [inv EXCEPT !.procs[p] = v]

\* old_data of a handler: the document it read from the service
OldDataRead_Stale(pid) == DocMinimal
OldDataRead(pid) == get_data(pid, AdminIdentity)

\* a handler reads the record and calls update_record(new_data, old_data)
InvCall ==
    \E p \in Procs, new_data \in InputDocs :
        /\ inv.procs[p].pc = "none"
        /\ SetProc(p, [NoProc EXCEPT !.pc = "exists_draft",
                                     !.new_data = new_data,
                                     !.old_data = OldDataRead(SharedPid)])
        /\ UNCHANGED << published, has_draft, draft >>
        /\ InvFrame

\* if not exists_draft(service, pid, identity)
InvExistsDraft ==
    \E p \in Procs, fault \in BOOLEAN :
        LET found == exists_draft(SharedPid, AdminIdentity, fault).returned
        IN  /\ inv.procs[p].pc = "exists_draft"
            /\ SetProc(p, [inv.procs[p] EXCEPT
                              !.pc = IF AfterExistsDraft(found) = "ur_edit"
                                     THEN "edit" ELSE "update_draft",
                              !.found = found])
            /\ UNCHANGED << published, has_draft, draft >>
            /\ InvFrame

\* service.edit(...); do_publish = True
InvEdit ==
    \E p \in Procs, ok \in BOOLEAN :
        /\ inv.procs[p].pc = "edit"
        /\ SetProc(p, [inv.procs[p] EXCEPT
                          !.pc = IF ok THEN "update_draft" ELSE "raised",
                          !.do_publish = ok,
                          !.error = IF ok THEN "none" ELSE "edit"])
        /\ draft' = IF ok THEN [draft EXCEPT ![SharedPid] = EditDraft(SharedPid)]
                    ELSE draft
        /\ has_draft' = IF ok THEN [has_draft EXCEPT ![SharedPid] = TRUE]
                        ELSE has_draft
        /\ UNCHANGED published
        /\ InvFrame

\* try: service.update_draft(..., data=new_data)
InvUpdateDraft ==
    \E p \in Procs, fault \in BOOLEAN :
        LET ok == has_draft[SharedPid] /\ ~fault
            me == inv.procs[p]
        IN  /\ me.pc = "update_draft"
            /\ SetProc(p, [me EXCEPT
                              !.pc = IF ~ok THEN "compensate"
                                     ELSE IF AfterUpdateDraft(me.do_publish) = "ur_publish"
                                     THEN "publish" ELSE "returned",
                              !.error = IF ok THEN "none" ELSE "update_draft"])
            /\ draft' = IF ok THEN [draft EXCEPT ![SharedPid] = me.new_data]
                        ELSE draft
            /\ UNCHANGED << published, has_draft >>
            /\ InvFrame

\* if do_publish: service.publish(...)
InvPublish ==
    \E p \in Procs, fault \in BOOLEAN :
        LET ok == has_draft[SharedPid] /\ ~fault
            me == inv.procs[p]
        IN  /\ me.pc = "publish"
            /\ SetProc(p, [me EXCEPT
                              !.pc = IF ok THEN "returned" ELSE "compensate",
                              !.error = IF ok THEN "none" ELSE "publish"])
            /\ published' = IF ok
                            THEN [published EXCEPT ![SharedPid] = draft[SharedPid]]
                            ELSE published
            /\ has_draft' = IF ok THEN [has_draft EXCEPT ![SharedPid] = FALSE]
                            ELSE has_draft
            /\ UNCHANGED draft
            /\ InvFrame

\* except Exception as error: service.update_draft(..., data=old_data); raise
InvCompensate ==
    \E p \in Procs, fault \in BOOLEAN :
        LET ok == has_draft[SharedPid] /\ ~fault
            me == inv.procs[p]
        IN  /\ me.pc = "compensate"
            /\ SetProc(p, [me EXCEPT
                              !.pc = "raised",
                              !.error = CompensateExit(ok, me.error).result.exc])
            /\ draft' = IF ok
                        THEN [draft EXCEPT ![SharedPid] =
                                CompensateData(me.new_data, me.old_data)]
                        ELSE draft
            /\ UNCHANGED << published, has_draft >>
            /\ InvFrame

NextConcurrent ==
    \/ InvCall
    \/ InvExistsDraft
    \/ InvEdit
    \/ InvUpdateDraft
    \/ InvPublish
    \/ InvCompensate

SpecConcurrent == InitConcurrent /\ [][NextConcurrent]_vars

\* ------------------------------------------------------------------------
\* Vocabulary of the properties
\* ------------------------------------------------------------------------

\* update_record has just handed control back to its caller
Finished == pc \in {"ur_returned", "ur_raised"}

\* exists_draft returned true at entry (the first call is read_draft)
DraftFound == Len(calls) >= 1 /\ calls[1].ok

\* positions of the calls of one service operation in the call log
Idx(op, data) == {i \in DOMAIN calls : calls[i].op = op /\ calls[i].data = data}

Failed(op, data) == \E i \in Idx(op, data) : ~calls[i].ok
Succeeded(op, data) == \E i \in Idx(op, data) : calls[i].ok

LastCall == calls[Len(calls)]

\* ------------------------------------------------------------------------
\* C1 (as stated): after update_record the published document is new_data
\* when the call returned normally and the document published before the
\* call when it raised, also when a draft existed at entry.
\* ------------------------------------------------------------------------
C1_Original ==
    Finished =>
        /\ pc = "ur_returned" => published[ur.pid] = ur.new_data
        /\ pc = "ur_raised" => published[ur.pid] = entry.published

\* C1 (amended): after update_record the published document is new_data
\* when the call returned normally and exists_draft found no draft at entry;
\* it is the document published before the call when the call returned
\* normally with a draft found at entry, and whenever the call raised.
C1_PublishedAfterCall ==
    Finished =>
        /\ (pc = "ur_returned" /\ ~DraftFound) => published[ur.pid] = ur.new_data
        /\ (pc = "ur_returned" /\ DraftFound) => published[ur.pid] = entry.published
        /\ pc = "ur_raised" => published[ur.pid] = entry.published

C1_Witness ==
    /\ pc = "ur_returned"
    /\ DraftFound
    /\ ur.new_data # entry.published
    /\ published[ur.pid] = entry.published

\* ------------------------------------------------------------------------
\* C2 (as stated): with no open draft at entry and old_data the published
\* document, when update_draft(new_data) or publish fails, the published
\* document equals old_data afterwards and the exception that reaches the
\* caller is the one of the failing step.
\* ------------------------------------------------------------------------
C2_Original ==
    (pc = "ur_raised" /\ ~entry.has_draft /\ ur.old_data = entry.published
        /\ ur.error \in {"update_draft", "publish"}) =>
        /\ published[ur.pid] = ur.old_data
        /\ result.exc = ur.error

\* C2 (amended): with no open draft at entry, when update_draft(new_data) or
\* publish fails, the published document afterwards is the document that was
\* published before the call, and the exception that reaches the caller is
\* the one of the failing step when the compensating write succeeds and the
\* one of the compensating write when that fails.
C2_RollbackOnFailure ==
    (pc = "ur_raised" /\ ~entry.has_draft /\ ur.error \in {"update_draft", "publish"}) =>
        /\ published[ur.pid] = entry.published
        /\ LastCall.ok => result.exc = ur.error
        /\ ~LastCall.ok => result.exc = "compensate"

C2_Witness ==
    /\ pc = "ur_raised"
    /\ ~entry.has_draft
    /\ ur.error = "publish"
    /\ LastCall.ok
    /\ result.exc = "publish"
    /\ ur.new_data # entry.published
    /\ published[ur.pid] = entry.published

\* ------------------------------------------------------------------------
\* C3: identity update.  For a published record without an open draft,
\* update_record with new_data = old_data = the published document leaves
\* the published document equal to old_data; when no service step raises it
\* returns normally and leaves no draft open, and records update reports
\* success for the entry.
\* ------------------------------------------------------------------------
IdentityUpdate ==
    /\ result.kind # "none"
    /\ ~entry.has_draft
    /\ ur.new_data = ur.old_data
    /\ ur.old_data = entry.published

NoServiceFailure == \A i \in 2..Len(calls) : calls[i].ok

CallOrder ==
    /\ \A i \in Idx("edit", "none"), j \in Idx("update_draft", "new_data") : i < j
    /\ \A j \in Idx("update_draft", "new_data"), k \in Idx("publish", "none") : j < k
    /\ Cardinality(Idx("edit", "none")) <= 1
    /\ Cardinality(Idx("update_draft", "new_data")) <= 1
    /\ Cardinality(Idx("publish", "none")) <= 1

C4_Original ==
    Finished =>
        /\ (Idx("edit", "none") # {} /\ Idx("publish", "none") # {}) <=> ~DraftFound
        /\ DraftFound => (Idx("edit", "none") = {} /\ Idx("publish", "none") = {})
        /\ Idx("update_draft", "new_data") # {}
        /\ CallOrder

\* C4 (amended): update_record calls edit if and only if exists_draft
\* returned false at entry, and calls publish if and only if, in addition,
\* edit and update_draft(new_data) succeeded; with a draft found it calls
\* neither.  update_draft(new_data) is called unless edit raised, after any
\* edit and before any publish, and each of the three is called at most
\* once.
C4_CallProtocol ==
    /\ CallOrder
    /\ Finished =>
        /\ Idx("edit", "none") # {} <=> ~DraftFound
        /\ Idx("publish", "none") # {} <=>
              (~DraftFound /\ Succeeded("edit", "none")
                           /\ Succeeded("update_draft", "new_data"))
        /\ DraftFound => (Idx("edit", "none") = {} /\ Idx("publish", "none") = {})
        /\ Idx("update_draft", "new_data") # {} <=>
              (DraftFound \/ Succeeded("edit", "none"))

C4_Witness ==
    /\ Finished
    /\ ~DraftFound
    /\ Succeeded("edit", "none")
    /\ Failed("update_draft", "new_data")
    /\ Idx("publish", "none") = {}

\* ------------------------------------------------------------------------
\* C5: when update_draft(new_data) or publish raises, update_record makes
\* exactly one compensating update_draft(old_data) call, does not retry the
\* failed step, and raises; it never returns normally after the failure.
\* ------------------------------------------------------------------------
StepFailed == Failed("update_draft", "new_data") \/ Failed("publish", "none")

C5_SingleCompensation ==
    /\ (pc \in {"ur_update_draft", "ur_publish", "ur_compensate", "ur_returned",
                "ur_raised"} /\ StepFailed) =>
          pc \in {"ur_compensate", "ur_raised"}
    /\ (Finished /\ StepFailed) =>
          /\ pc = "ur_raised"
          /\ result.kind = "raised"
          /\ Cardinality(Idx("update_draft", "old_data")) = 1
          /\ Cardinality(Idx("update_draft", "new_data")) = 1
          /\ Cardinality(Idx("publish", "none")) <= 1
          /\ LastCall.op = "update_draft" /\ LastCall.data = "old_data"

C5_Witness ==
    /\ pc = "ur_raised"
    /\ Failed("update_draft", "new_data")
    /\ Succeeded("update_draft", "old_data")
    /\ result.exc = "update_draft"

\* ------------------------------------------------------------------------
\* C6: when the compensating update_draft(old_data) raises, the exception
\* that reaches the caller is that of the compensating write, not the one
\* of the failed step, and no further compensation is attempted.
\* ------------------------------------------------------------------------
C6_SecondaryMasksOriginal ==
    (Finished /\ Failed("update_draft", "old_data")) =>
        /\ pc = "ur_raised"
        /\ result.exc = "compensate"
        /\ result.exc # ur.error
        /\ Cardinality(Idx("update_draft", "old_data")) = 1
        /\ LastCall.op = "update_draft" /\ LastCall.data = "old_data"

C6_Witness ==
    /\ pc = "ur_raised"
    /\ ur.error = "publish"
    /\ Failed("update_draft", "old_data")
    /\ result.exc = "compensate"

\* ------------------------------------------------------------------------
\* C7 (as stated): when edit fails, update_record attempts the compensating
\* update_draft(old_data), and with no draft the caller sees the error of
\* that write.
\* ------------------------------------------------------------------------
C7_Original ==
    (Finished /\ Failed("edit", "none")) =>
        /\ Idx("update_draft", "old_data") # {}
        /\ ~entry.has_draft => result.exc = "compensate"

\* C7 (amended): when edit fails, update_record makes no further service
\* call (no update_draft, no compensating write, no publish); the exception
\* of edit reaches the caller and the record is as it was at entry.
C7_EditFailurePropagates ==
    (Finished /\ Failed("edit", "none")) =>
        /\ pc = "ur_raised"
        /\ result.exc = "edit"
        /\ Len(calls) = 2
        /\ Idx("update_draft", "old_data") = {}
        /\ Idx("update_draft", "new_data") = {}
        /\ Idx("publish", "none") = {}
        /\ published[ur.pid] = entry.published
        /\ has_draft[ur.pid] = entry.has_draft
        /\ draft[ur.pid] = entry.draft

C7_Witness ==
    /\ pc = "ur_raised"
    /\ Failed("edit", "none")
    /\ ~entry.has_draft
    /\ ~has_draft[ur.pid]
    /\ result.exc = "edit"

\* ------------------------------------------------------------------------
\* C8: in every handler that calls update_record, old_data is the document
\* as it was read, untouched by the handler's transform; so whenever the
\* transform changes the document, old_data differs from new_data.
\* ------------------------------------------------------------------------
C8_OldDataIsSnapshot ==
    hd.handler # "none" =>
        /\ hd.old_data = hd.read_data
        /\ hd.new_data # hd.read_data => hd.old_data # hd.new_data

\* ------------------------------------------------------------------------
\* C9 (as stated): when a draft exists at entry, after a normal return the
\* draft holds new_data, after a failure it holds old_data; in both cases
\* the published document is unchanged and the draft stays open.
\* ------------------------------------------------------------------------
C9_Original ==
    (Finished /\ entry.has_draft) =>
        /\ published[ur.pid] = entry.published
        /\ has_draft[ur.pid]
        /\ pc = "ur_returned" => draft[ur.pid] = ur.new_data
        /\ pc = "ur_raised" => draft[ur.pid] = ur.old_data

\* C9 (amended): when exists_draft finds a draft at entry, after a normal
\* return the draft holds new_data; after a failure it holds old_data when
\* the compensating write succeeded and its pre-call contents when that
\* failed too; in all cases the published document is unchanged and the
\* draft stays open.
C9_DraftOverwritten ==
    (Finished /\ DraftFound) =>
        /\ entry.has_draft
        /\ published[ur.pid] = entry.published
        /\ has_draft[ur.pid]
        /\ pc = "ur_returned" => draft[ur.pid] = ur.new_data
        /\ (pc = "ur_raised" /\ LastCall.ok) => draft[ur.pid] = ur.old_data
        /\ (pc = "ur_raised" /\ ~LastCall.ok) => draft[ur.pid] = entry.draft

C9_Witness ==
    /\ pc = "ur_returned"
    /\ DraftFound
    /\ entry.draft # entry.published
    /\ entry.draft # ur.new_data
    /\ draft[ur.pid] = ur.new_data
    /\ has_draft[ur.pid]

\* ------------------------------------------------------------------------
\* C10: exists_record returns true if and only if the read of the
\* published record succeeds; every exception of the read yields false and
\* none is propagated.  So it is false for a soft-deleted or unknown PID
\* under every identity, and true for a published record under every
\* identity that may read it (when the read meets no other error).
\* ------------------------------------------------------------------------
C10_ExistsRecord ==
    probe.seen.outcome # "none" =>
        /\ probe.returned <=> probe.seen.outcome = "ok"
        /\ ~probe.propagated
        /\ probe.seen.status \in {"absent", "deleted"} => ~probe.returned
        /\ (probe.seen.status = "published" /\ probe.seen.may_read
               /\ probe.seen.outcome # "other") => probe.returned

C10_Witness ==
    /\ probe.seen.outcome = "permission_denied"
    /\ probe.seen.status = "published"
    /\ ~probe.returned
    /\ ~probe.propagated

\* ------------------------------------------------------------------------
\* C11: exists_draft returns true if and only if a draft exists for the PID
\* and read_draft succeeds under the identity; every exception of
\* read_draft yields false and none is propagated.  Right after a
\* successful publish it returns false, right after a successful edit it
\* returns true.
\* ------------------------------------------------------------------------
C11_ExistsDraft ==
    /\ (pc \in {"ur_edit", "ur_update_draft"} /\ Len(calls) = 1) =>
          /\ calls[1].ok <=> (has_draft[ur.pid] /\ calls[1].outcome = "ok")
          /\ calls[1].outcome = "ok" => MayRead(ur.pid, ur.identity)
          /\ ~calls[1].propagated
    /\ \A p \in PIDs, identity \in {AdminIdentity, AnyUserIdentity},
          fault \in BOOLEAN :
          /\ ~exists_draft(p, identity, fault).propagated
          /\ exists_draft(p, identity, fault).returned => has_draft[p]
          /\ (has_draft[p] /\ MayRead(p, identity) /\ ~fault) =>
                exists_draft(p, identity, fault).returned
    /\ (pc = "ur_returned" /\ LastCall.op = "publish" /\ LastCall.ok) =>
          \A fault \in BOOLEAN :
             ~exists_draft(ur.pid, ur.identity, fault).returned
    /\ (pc = "ur_update_draft" /\ LastCall.op = "edit" /\ LastCall.ok) =>
          exists_draft(ur.pid, ur.identity, FALSE).returned

C11_Witness ==
    /\ pc = "ur_edit"
    /\ Len(calls) = 1
    /\ has_draft[ur.pid]
    /\ calls[1].outcome = "other"
    /\ ~calls[1].ok

\* ------------------------------------------------------------------------
\* C12: exists_record and exists_draft are pure queries: a call of either,
\* whatever it returns, leaves the published document, the draft and the
\* deleted flag of every record unchanged, and makes exactly one service
\* call (one read, respectively one read_draft).
\* ------------------------------------------------------------------------
ProbeStep ==
    \/ probe' # probe /\ probe'.seen.outcome # "none"
    \/ pc = "ur_exists_draft"

C12_ProbeCalls ==
    /\ probe.seen.outcome # "none" => probe.service_calls = << "read" >>
    /\ (Len(calls) >= 1 /\ pc # "idle"
          /\ cmd \notin {"modify_access", "publish"}) =>
          /\ calls[1].op = "read_draft"
          /\ calls[1].service_calls = << "read_draft" >>
    /\ (pc \in {"ur_edit", "ur_update_draft"} /\ Len(calls) = 1) =>
          /\ published[ur.pid] = entry.published
          /\ has_draft[ur.pid] = entry.has_draft
          /\ draft[ur.pid] = entry.draft

C12_PureProbes ==
    /\ []C12_ProbeCalls
    /\ [][ProbeStep => UNCHANGED << status, restricted, published, has_draft,
                                    draft >>]_vars

C12_Witness ==
    /\ pc = "ur_update_draft"
    /\ Len(calls) = 1
    /\ calls[1].ok
    /\ probe.returned
    /\ draft[ur.pid] # published[ur.pid]

\* ------------------------------------------------------------------------
\* C13: get_identity called with a role name that is not in the role
\* directory raises an error whose message names that role and returns no
\* identity; the error ends the command that asked for the identity, which
\* therefore makes no record-service call at all.
\* ------------------------------------------------------------------------
MutatingCommands ==
    {"identifiers_add", "identifiers_replace", "pids_replace", "pids_add",
     "update", "modify_access", "publish"}

ExpectedGrants(permission_name, role_name) ==
    {IF permission_name = "system_process" THEN "system_process" ELSE "any_user"}
    \cup (IF role_name # "" /\ role_name \in roles
          THEN {"role:" \o role_name} ELSE {})

C14_Step ==
    LET n == Len(idents)
    IN  /\ Len(idents') = n + 1
        /\ \A i \in 1..n : idents'[i] = idents[i]
        /\ ~ident'.raised =>
              /\ ident'.obj = n + 1
              /\ idents'[n + 1] = ident'.provides
              /\ ident'.provides =
                    ExpectedGrants(ident'.permission_name, ident'.role_name)

C14_FreshIdentity ==
    [][(idents' # idents \/ ident' # ident) => C14_Step]_<< idents, ident >>

C14_Witness ==
    /\ Len(idents) = 3
    /\ idents[1] = {"role:admin", "system_process"}
    /\ idents[2] = {"role:curator", "any_user"}
    /\ idents[3] = {"any_user"}
    /\ ident.permission_name = "superuser"
    /\ ident.role_name = ""
    /\ ident.obj = 3

\* ------------------------------------------------------------------------
\* C15 (as stated): identifiers add on a record whose identifiers lack the
\* scheme leaves the record with the previous list plus the new entry
\* appended at the end.
\* ------------------------------------------------------------------------
AddCalled == hd.handler = "identifiers_add"
AddDone == AddCalled /\ cmd = "identifiers_add" /\ pc = "idle"

UniqueSchemes(list) ==
    \A i, j \in DOMAIN list : list[i].scheme = list[j].scheme => i = j

AlreadyLine(pid, scheme) ==
    Line(pid, "scheme '" \o scheme \o "' already in identifiers")

C15_Original ==
    AddDone =>
        published[ur.pid].identifiers = Append(hd.read_data.identifiers, hd.arg)

\* C15 (amended): identifiers add reports "scheme '<scheme>' already in
\* identifiers" exactly when the scheme occurs in the record's identifiers,
\* and then makes no edit, update_draft or publish call and leaves the record
\* unchanged.  Otherwise the document it hands to update_record has the
\* previous list with exactly the new entry appended at the end, the previous
\* entries unchanged and in order; the published list becomes that list when
\* update_record returns normally and found no draft at entry, and stays the
\* previous list when update_record raises or found a draft at entry.  Every
\* scheme occurs at most once in every list.
C15_State ==
    /\ AddCalled =>
          /\ hd.arg.scheme \notin SchemesOf(hd.read_data.identifiers)
          /\ hd.new_data.identifiers = Append(hd.read_data.identifiers, hd.arg)
          /\ hd.new_data.pids = hd.read_data.pids
          /\ ur.new_data = hd.new_data
    /\ (AddCalled /\ pc = "ur_returned" /\ ~DraftFound) =>
          published[ur.pid].identifiers = Append(hd.read_data.identifiers, hd.arg)
    /\ (AddCalled /\ (pc = "ur_raised" \/ (pc = "ur_returned" /\ DraftFound))) =>
          published[ur.pid] = hd.read_data
    /\ \A s \in Schemes :
          (cmd = "identifiers_add" /\ pc = "idle"
             /\ output = << AlreadyLine(probe.seen.pid, s) >>) =>
             /\ s \in SchemesOf(published[probe.seen.pid].identifiers)
             /\ calls = << >>
             /\ ~AddCalled
    /\ \A p \in PIDs :
          /\ UniqueSchemes(published[p].identifiers)
          /\ UniqueSchemes(draft[p].identifiers)

C15_Step ==
    (pc = "idle" /\ cmd' = "identifiers_add") =>
        /\ pc' = "idle" => UNCHANGED service_vars
        /\ (probe'.returned /\ pc' = "idle") =>
              \E s \in SchemesOf(published[probe'.seen.pid].identifiers) :
                 output' = << AlreadyLine(probe'.seen.pid, s) >>

C15_IdentifiersAdd == []C15_State /\ [][C15_Step]_vars

C15_Witness ==
    /\ AddDone
    /\ result.kind = "returned"
    /\ ~DraftFound
    /\ Len(hd.read_data.identifiers) = 1
    /\ published[ur.pid].identifiers = Append(hd.read_data.identifiers, hd.arg)

\* ------------------------------------------------------------------------
\* C16 (as stated): identifiers replace on a record whose identifiers hold
\* the scheme leaves the record with a list of the same length and order in
\* which exactly the first entry of that scheme is the new entry.
\* ------------------------------------------------------------------------
ReplaceCalled == hd.handler = "identifiers_replace"
ReplaceDone == ReplaceCalled /\ cmd = "identifiers_replace" /\ pc = "idle"

\* the list with the first entry of the scheme of x replaced by x
FirstReplaced(list, x) ==
    [i \in DOMAIN list |->
        IF list[i].scheme = x.scheme
           /\ \A j \in 1..(i - 1) : list[j].scheme # x.scheme
        THEN x ELSE list[i]]

NotInLine(pid, scheme) ==
    Line(pid, "scheme '" \o scheme \o "' not in identifiers")

\* a stored document in which one scheme occurs twice
DocTwoArks ==
    [has_identifiers |-> TRUE,
     identifiers |-> << [scheme |-> "doi", identifier |-> "v1"],
                        [scheme |-> "ark", identifier |-> "v1"],
                        [scheme |-> "ark", identifier |-> "v1"] >>,
     pids |-> NoPids]

C16_Original ==
    ReplaceDone =>
        published[ur.pid].identifiers =
            FirstReplaced(hd.read_data.identifiers, hd.arg)

\* C16 (amended): identifiers replace reports "scheme '<scheme>' not in
\* identifiers" exactly when the scheme does not occur in the record's
\* identifiers, and then makes no edit, update_draft or publish call and
\* leaves the record unchanged.  Otherwise the document it hands to
\* update_record has a list of the same length and order in which exactly the
\* first entry of that scheme is replaced by the new entry; the published
\* list becomes that list when update_record returns normally and found no
\* draft at entry, and stays the previous list when update_record raises or
\* found a draft at entry.
C16_State ==
    /\ ReplaceCalled =>
          /\ hd.arg.scheme \in SchemesOf(hd.read_data.identifiers)
          /\ hd.new_data.identifiers =
                FirstReplaced(hd.read_data.identifiers, hd.arg)
          /\ Len(hd.new_data.identifiers) = Len(hd.read_data.identifiers)
          /\ hd.new_data.pids = hd.read_data.pids
          /\ ur.new_data = hd.new_data
    /\ (ReplaceCalled /\ pc = "ur_returned" /\ ~DraftFound) =>
          published[ur.pid].identifiers =
              FirstReplaced(hd.read_data.identifiers, hd.arg)
    /\ (ReplaceCalled /\ (pc = "ur_raised" \/ (pc = "ur_returned" /\ DraftFound))) =>
          published[ur.pid] = hd.read_data
    /\ \A s \in Schemes :
          (cmd = "identifiers_replace" /\ pc = "idle"
             /\ output = << NotInLine(probe.seen.pid, s) >>) =>
             /\ s \notin SchemesOf(published[probe.seen.pid].identifiers)
             /\ calls = << >>
             /\ ~ReplaceCalled
    /\ \A doc \in InitDocs \cup InputDocs \cup {DocTwoArks}, x \in Identifier :
          LET b == IdentifiersReplaceBuild(doc, x)
          IN  /\ b.called <=> x.scheme \in SchemesOf(doc.identifiers)
              /\ b.called =>
                    b.new_data.identifiers = FirstReplaced(doc.identifiers, x)

C16_Step ==
    (pc = "idle" /\ cmd' = "identifiers_replace") =>
        /\ pc' = "idle" => UNCHANGED service_vars
        /\ (probe'.returned /\ pc' = "idle") =>
              \E s \in Schemes \ SchemesOf(published[probe'.seen.pid].identifiers) :
                 output' = << NotInLine(probe'.seen.pid, s) >>

C16_IdentifiersReplace == []C16_State /\ [][C16_Step]_vars

C16_Witness ==
    /\ ReplaceDone
    /\ result.kind = "returned"
    /\ ~DraftFound
    /\ hd.arg \notin {hd.read_data.identifiers[i] :
                         i \in DOMAIN hd.read_data.identifiers}
    /\ published[ur.pid].identifiers =
          FirstReplaced(hd.read_data.identifiers, hd.arg)

\* ------------------------------------------------------------------------
\* C17: pids replace reports "does not have pid identifier" when the first
\* key of the pid-identifier is not in the record's pids, and then makes no
\* edit, update_draft or publish call and leaves the record unchanged; when
\* the key is present, the new_data it passes to update_record differs from
\* the record's document only in the value of that one pids key.
\* ------------------------------------------------------------------------
PidReplaceCalled == hd.handler = "pids_replace"

NoPidLine(pid, pid_key) ==
    Line(pid, "does not have pid identifier '" \o pid_key \o "'")

C17_State ==
    /\ PidReplaceCalled =>
          /\ hd.read_data.pids[hd.arg.key] # NoPid
          /\ hd.new_data.pids[hd.arg.key] = hd.arg.value
          /\ \A k \in PidKeys \ {hd.arg.key} :
                hd.new_data.pids[k] = hd.read_data.pids[k]
          /\ hd.new_data.has_identifiers = hd.read_data.has_identifiers
          /\ hd.new_data.identifiers = hd.read_data.identifiers
          /\ ur.new_data = hd.new_data
    /\ \A k \in PidKeys :
          (cmd = "pids_replace" /\ pc = "idle"
             /\ output = << NoPidLine(probe.seen.pid, k) >>) =>
             /\ published[probe.seen.pid].pids[k] = NoPid
             /\ calls = << >>
             /\ ~PidReplaceCalled

C17_Step ==
    (pc = "idle" /\ cmd' = "pids_replace") =>
        /\ pc' = "idle" => UNCHANGED service_vars
        /\ (probe'.returned /\ pc' = "idle") =>
              \E k \in PidKeys :
                 /\ published[probe'.seen.pid].pids[k] = NoPid
                 /\ output' = << NoPidLine(probe'.seen.pid, k) >>

C17_PidsReplace == []C17_State /\ [][C17_Step]_vars

C17_Witness ==
    /\ PidReplaceCalled
    /\ pc = "ur_exists_draft"
    /\ hd.arg.key = "doi"
    /\ hd.read_data.pids["doi"] # hd.arg.value
    /\ hd.new_data.pids["doi"] = hd.arg.value

\* ------------------------------------------------------------------------
\* C18: pids add calls update_record only when the record exists, the
\* pid-identifier has the form {type: {identifier, provider}}, the type is in
\* the service's provider configuration, the provider is configured for that
\* type and the record's pids has no entry for that type; in every other
\* case it reports an error and makes no edit, update_draft or publish call.
\* The new document differs from the old one only by the added pids[type],
\* and an existing pids entry is never overwritten by add.
\* ------------------------------------------------------------------------
AddPidCalled == hd.handler = "pids_add"

C18_State ==
    /\ AddPidCalled =>
          /\ probe.returned
          /\ status[ur.pid] = "published"
          /\ hd.arg.form = "ok"
          /\ hd.arg.type \in DOMAIN ProvidersConfig
          /\ hd.arg.provider \in ProvidersConfig[hd.arg.type]
          /\ hd.read_data.pids[hd.arg.type] = NoPid
          /\ hd.old_data = hd.read_data
          /\ hd.new_data.pids[hd.arg.type] =
                [identifier |-> hd.arg.identifier, provider |-> hd.arg.provider]
          /\ \A k \in PidKeys \ {hd.arg.type} :
                hd.new_data.pids[k] = hd.old_data.pids[k]
          /\ hd.new_data.has_identifiers = hd.old_data.has_identifiers
          /\ hd.new_data.identifiers = hd.old_data.identifiers
          /\ ur.new_data = hd.new_data
          /\ ur.old_data = hd.old_data
    /\ (AddPidCalled /\ Finished) =>
          \A k \in PidKeys :
             entry.published.pids[k] # NoPid =>
                published[ur.pid].pids[k] = entry.published.pids[k]
    /\ (cmd = "pids_add" /\ pc = "idle" /\ ~AddPidCalled) =>
          /\ calls = << >>
          /\ cmd_error = "" => output # << >>

C18_Step ==
    (pc = "idle" /\ cmd' = "pids_add" /\ pc' = "idle") =>
        /\ UNCHANGED service_vars
        /\ \A k \in PidKeys :
              output' = << Line(probe'.seen.pid,
                                "pid-identifier of pid-type '" \o k
                                \o "' was already added") >> =>
                 published[probe'.seen.pid].pids[k] # NoPid

C18_PidsAdd == []C18_State /\ [][C18_Step]_vars

C18_Witness ==
    /\ AddPidCalled
    /\ pc = "ur_returned"
    /\ ~DraftFound
    /\ hd.arg.type = "doi"
    /\ entry.published.pids["doi"] = NoPid
    /\ published[ur.pid].pids["doi"] =
          [identifier |-> hd.arg.identifier, provider |-> hd.arg.provider]

\* ------------------------------------------------------------------------
\* C19 (as stated): in records update the failure of an entry does not
\* change the result of the update of any other entry: an entry of a record
\* that had no open draft when the command started, and whose update_record
\* returns normally, has its document published, whatever happened to the
\* entries before it.
\* ------------------------------------------------------------------------
UpdateRunning == cmd = "update" /\ cmd_error = ""

\* number of entries whose loop pass is over
Processed == Len(batch.list) - Len(queue)

ResultLines ==
    {"does not exist or is deleted", "problem during update",
     "successfully updated"}

RecordState(p) ==
    << status[p], restricted[p], published[p], has_draft[p], draft[p] >>

C19_State ==
    UpdateRunning =>
        LET n == Len(batch.list)
            k == Processed
        IN  /\ k \in 0..n
            /\ queue = SubSeq(batch.list, k + 1, n)
            /\ Len(output) = IF pc \in {"idle", "update_loop"}
                             THEN 2 * k ELSE 2 * k + 1
            /\ \A i \in 1..k :
                  /\ output[2 * i - 1] = Line(batch.list[i].id, "trying to update")
                  /\ output[2 * i].pid = batch.list[i].id
                  /\ output[2 * i].msg \in ResultLines
            /\ pc = "idle" => k = n
            /\ pc \notin {"idle", "update_loop"} =>
                  /\ output[2 * k + 1] =
                        Line(batch.list[k + 1].id, "trying to update")
                  /\ ur.pid = batch.list[k + 1].id
                  /\ ur.new_data = batch.list[k + 1].doc
            /\ (pc \in {"idle", "update_loop"} /\ k >= 1) =>
                  /\ result.kind = "raised" <=>
                        output[2 * k].msg = "problem during update"
                  /\ result.kind = "returned" <=>
                        output[2 * k].msg = "successfully updated"
                  /\ result.kind = "none" =>
                        /\ ~probe.returned
                        /\ calls = << >>
            /\ (pc = "ur_returned" /\ ~DraftFound) =>
                  published[ur.pid] = ur.new_data

C19_Step ==
    (UpdateRunning /\ cmd' = "update") =>
        /\ \A p \in PIDs :
              RecordState(p)' # RecordState(p) =>
                 /\ p = ur.pid
                 /\ pc \in {"ur_edit", "ur_update_draft", "ur_publish",
                            "ur_compensate"}
        /\ (pc = "update_loop" /\ pc' = "update_loop") =>
              /\ UNCHANGED service_vars
              /\ queue' = Tail(queue)
              /\ output'[Len(output')] =
                    Line(Head(queue).id, "does not exist or is deleted")

BatchCommands == {"update", "modify_access", "publish"}

\* the command was left by a read that failed on a record that exists
ReadFaultOnly ==
    /\ cmd = "modify_access"
    /\ result.kind = "raised"
    /\ result.exc = "read"
    /\ queue # << >>
    /\ status[Head(queue)] = "published"

C20_BatchFailureHandled ==
    (cmd \in BatchCommands /\ pc = "idle" /\ ~ident.raised /\ ~ReadFaultOnly) =>
        /\ cmd_error = ""
        /\ queue = << >>

\* ------------------------------------------------------------------------
\* C21: every command handler that calls update_record catches the
\* exception update_record re-raises, reports it as a text line and returns
\* normally: no command whose update_record raised ends with an exception.
\* ------------------------------------------------------------------------
UpdateRecordCommands ==
    {"identifiers_add", "identifiers_replace", "pids_replace", "pids_add",
     "update", "generated"}

C21_HandlersCatch ==
    (pc = "idle" /\ cmd \in UpdateRecordCommands /\ result.kind = "raised") =>
        /\ cmd_error = ""
        /\ output # << >>
        /\ output[Len(output)].pid = ur.pid

\* ------------------------------------------------------------------------
\* C22: a handler invoked with a PID that denotes no live record (never
\* created, or soft-deleted) reports a not-found message and returns
\* normally: it raises nothing and makes no mutating call.  Stated for the
\* files add, replace and delete handlers, which look the record up through
\* get_record_or_draft.
\* ------------------------------------------------------------------------
FileCommands == {"files_add", "files_replace", "files_delete"}

C22_NotFoundReported ==
    (/\ pc = "idle"
     /\ cmd \in FileCommands
     /\ ~ident.raised
     /\ status[ur.pid] # "published") =>
        /\ cmd_error = ""
        /\ Len(output) = 1
        /\ output[1].pid = ur.pid
        /\ flog = << >>
        /\ files[ur.pid] = hd.arg.before

\* ------------------------------------------------------------------------
\* C23: delete-draft has exactly three outcomes, determined by the state of
\* the PID: an open draft is discarded (published document unchanged) and
\* 'deleted draft' is reported; a record without a draft reports 'does not
\* have a draft' and nothing changes; an unknown PID reports 'does not
\* exist' and nothing changes.  After a successful delete-draft there is no
\* draft, so a repeated delete-draft reports 'does not have a draft'.
\* ------------------------------------------------------------------------
DeleteDraftCommands == {"delete_draft", "legacy_delete_draft"}

DeleteDraftRan ==
    pc = "idle" /\ cmd \in DeleteDraftCommands /\ ~ident.raised

Reported(msgs) == Len(output) = 1 /\ output[1].pid = ur.pid /\ output[1].msg \in msgs

C23_DeleteDraftOutcomes ==
    DeleteDraftRan =>
        /\ published[ur.pid] = entry.published
        /\ status[ur.pid] = hd.arg.status
        /\ cmd_error = ""
        /\ (hd.arg.status = "published" /\ entry.has_draft) =>
              /\ Reported({"deleted draft"})
              /\ ~has_draft[ur.pid]
              /\ ~exists_draft(ur.pid, AdminIdentity, FALSE).returned
        /\ (hd.arg.status = "published" /\ ~entry.has_draft) =>
              /\ Reported({"does not have a draft"})
              /\ ~has_draft[ur.pid]
        /\ hd.arg.status = "absent" =>
              /\ Reported({"does not exists", "does not exist or is deleted"})
              /\ ~has_draft[ur.pid]

\* ------------------------------------------------------------------------
\* C24: records delete on an existing, non-deleted PID calls the service's
\* delete exactly once and reports 'soft-deleted'; afterwards exists_record
\* is false for the PID and count and list no longer include the record.  A
\* delete of a PID that is deleted or never existed reports 'does not exist
\* or is deleted' and does not call delete.
\* ------------------------------------------------------------------------
DeleteCommands == {"delete_record", "delete_records"}

\* the command looked the PID up and the read did not fail for a reason
\* other than the state of the PID
DeleteRan ==
    /\ pc = "idle"
    /\ cmd \in DeleteCommands
    /\ ~ident.raised
    /\ probe.seen.outcome # "other"

CallsOf(op) == {i \in DOMAIN calls : calls[i].op = op}

Listed(record_type) ==
    {Query(record_type, 1)[i] : i \in 1..count(record_type)}

C24_Delete ==
    DeleteRan =>
        /\ cmd_error = ""
        /\ hd.arg.status = "published" =>
              /\ Reported({"soft-deleted"})
              /\ Cardinality(CallsOf("delete")) = 1
              /\ ~exists_record(ur.pid, AdminIdentity, FALSE).returned
              /\ ur.pid \notin Listed("record")
              /\ count("record") = hd.arg.count - 1
        /\ hd.arg.status # "published" =>
              /\ Reported({"does not exist or is deleted"})
              /\ CallsOf("delete") = {}
              /\ status = [status EXCEPT ![ur.pid] = hd.arg.status]

\* ------------------------------------------------------------------------
\* C25: a JSON-typed option value that is neither a path to a file with
\* valid JSON nor a valid inline JSON string produces the fixed message
\* 'ERROR - Invalid JSON provided. Check file path or json string.' and ends
\* the command with exit code 0 before the handler body runs; an
\* --identifier value that parses but lacks the key 'identifier' or 'scheme'
\* is rejected the same way with the missing-key message.
\* ------------------------------------------------------------------------
ValidJson(value) == value.decodable /\ value.text.form = "json"

LacksKey(value) ==
    \/ value.text.denotes.type \in {"number", "null", "bool"}
    \/ \E i \in DOMAIN ValidateKeys : ValidateKeys[i] \notin value.text.denotes.has

C25_InvalidJsonRejected ==
    conv.stage # "none" =>
        /\ ~ValidJson(conv.value) =>
              /\ conv.stage # "handler"
              /\ conv.exit_code = 0
              /\ conv.lines # << >>
              /\ conv.lines[1] = InvalidJsonMsg
        /\ (ValidJson(conv.value) /\ conv.option = "--identifier"
                /\ LacksKey(conv.value)) =>
              /\ conv.stage # "handler"
              /\ conv.exit_code = 0
              /\ \E i \in DOMAIN ValidateKeys :
                    conv.lines = << _error_msg(ValidateKeys[i]) >>

\* ------------------------------------------------------------------------
\* C26: for every set of non-deleted records and every jq filter, the text
\* that records list --output-file writes is a well-formed JSON array: it
\* begins with '[', ends with ']' and has exactly one ',' between each two
\* consecutive written elements and none after the last; records for which
\* the filter output is empty or false are skipped and not written.
\* ------------------------------------------------------------------------

\* text[i..] is: element (',' element)* ']' and nothing after it
RECURSIVE Elements(_, _)
Elements(text, i) ==
    /\ i + 1 <= Len(text)
    /\ text[i].token = "json"
    /\ \/ text[i + 1].token = "]" /\ i + 1 = Len(text)
       \/ text[i + 1].token = "," /\ Elements(text, i + 2)

WellFormedArray(text) ==
    /\ Len(text) >= 2
    /\ text[1].token = "["
    /\ \/ Len(text) = 2 /\ text[2].token = "]"
       \/ Elements(text, 2)

Written(text) == {text[i].of : i \in {j \in DOMAIN text : text[j].token = "json"}}

C26_ListOutputFile ==
    (cmd = "list" /\ outfile.opened) =>
        /\ WellFormedArray(outfile.text)
        /\ Written(outfile.text)
              = {outfile.records[i] : i \in DOMAIN outfile.records} \ outfile.falsy

\* ------------------------------------------------------------------------
\* C27: records files add creates a file in the record only when either
\* files are enabled and no file of that name exists, or files are disabled
\* and --enable-files is given.  In every other case the record's file set
\* and its enabled flag are unchanged and nothing is committed.  On the
\* creating path the file store is unlocked before the create and locked
\* again before the commit.
\* ------------------------------------------------------------------------
FlogAt(op) == {i \in DOMAIN flog : flog[i].op = op}

MayCreate ==
    \/ hd.arg.before.enabled /\ hd.arg.filename \notin hd.arg.before.names
    \/ ~hd.arg.before.enabled /\ hd.arg.enable_files

Before(op1, op2) ==
    /\ FlogAt(op1) # {}
    /\ FlogAt(op2) # {}
    /\ \A i \in FlogAt(op1), j \in FlogAt(op2) : i < j

C27_FilesAdd ==
    (pc = "idle" /\ cmd = "files_add") =>
        /\ FlogAt("create") # {} =>
              /\ MayCreate
              /\ Cardinality(FlogAt("create")) = 1
              /\ \A i \in FlogAt("create") : flog[i].key = hd.arg.filename
              /\ files[ur.pid] = [enabled |-> TRUE,
                                  names |-> hd.arg.before.names \cup {hd.arg.filename},
                                  locked |-> TRUE]
              /\ Before("unlock", "create")
              /\ Before("create", "lock")
              /\ Before("lock", "record.commit")
              /\ Before("lock", "db.session.commit")
        /\ ~MayCreate =>
              /\ files[ur.pid] = hd.arg.before
              /\ flog = << >>
        /\ (MayCreate /\ status[ur.pid] = "published" /\ ~ident.raised) =>
              FlogAt("create") # {}

C27_Witness ==
    /\ pc = "idle"
    /\ cmd = "files_add"
    /\ ~hd.arg.before.enabled
    /\ hd.arg.enable_files
    /\ FlogAt("create") # {}
    /\ files[ur.pid].enabled

\* ------------------------------------------------------------------------
\* C28: when update_record auto-creates a draft (no draft at entry) and
\* update_draft or publish then fails, the auto-created draft is still open
\* when the exception propagates: delete_draft is never called.  The next
\* update_record call on the same PID that finds this draft takes the
\* do_publish = false path and, when it returns normally, has not published
\* its new_data: the published document stays what it was.
\* ------------------------------------------------------------------------

\* the running call opened the draft itself and a later step failed
AutoCreatedThenFailed ==
    /\ pc = "ur_raised"
    /\ ~entry.has_draft
    /\ Succeeded("edit", "none")
    /\ Failed("update_draft", "new_data") \/ Failed("publish", "none")

\* the running call of a batch found a draft that no one but an earlier
\* entry of the batch can have opened
LeftoverDraftFound ==
    /\ cmd = "update"
    /\ Finished
    /\ ~batch.has_draft[ur.pid]
    /\ entry.has_draft
    /\ DraftFound

FailedBefore(pid) ==
    \E i \in DOMAIN output :
        output[i] = Line(pid, "problem during update")

C28_DraftLeftOpen ==
    /\ \A i \in DOMAIN calls : calls[i].op # "delete_draft"
    /\ AutoCreatedThenFailed =>
          /\ has_draft[ur.pid]
          /\ published[ur.pid] = entry.published
    /\ LeftoverDraftFound =>
          /\ FailedBefore(ur.pid)
          /\ ~ur.do_publish
          /\ Idx("edit", "none") = {}
          /\ Idx("publish", "none") = {}
          /\ published[ur.pid] = entry.published
          /\ has_draft[ur.pid]
          /\ pc = "ur_returned" => draft[ur.pid] = ur.new_data

C28_Witness ==
    /\ LeftoverDraftFound
    /\ pc = "ur_returned"
    /\ published[ur.pid] # ur.new_data

\* ------------------------------------------------------------------------
\* C29 (as stated): from the same record state with no open draft, the
\* legacy update_record (cli/util.py) and the current one (utils.py) issue
\* the same sequence of mutating service calls and reach the same published
\* and draft state, for every outcome of each service step; they differ
\* only when a draft exists at entry, where the legacy version still calls
\* publish.
\* ------------------------------------------------------------------------

\* the mutating calls of the finished call of the current version
Mutating ==
    LET m == SelectSeq(calls, LAMBDA c : c.op # "read_draft")
    IN  [i \in DOMAIN m |-> MutatingCall(m[i].op, m[i].data, m[i].ok)]

OkOf(op, data) == \A i \in Idx(op, data) : calls[i].ok

\* the outcomes of the service steps are those of the finished call
Agrees(o) ==
    /\ entry.has_draft => o["read_draft"] = DraftFound
    /\ Idx("edit", "none") # {} => o["edit"] = OkOf("edit", "none")
    /\ Idx("update_draft", "new_data") # {} =>
          o["update_draft"] = OkOf("update_draft", "new_data")
    /\ Idx("publish", "none") # {} => o["publish"] = OkOf("publish", "none")
    /\ Idx("update_draft", "old_data") # {} =>
          o["compensate"] = OkOf("update_draft", "old_data")

SameRun(L) ==
    /\ L.calls = Mutating
    /\ L.raised = (pc = "ur_raised")
    /\ L.published = published[ur.pid]
    /\ L.has_draft = has_draft[ur.pid]
    /\ L.has_draft => L.draft = draft[ur.pid]

C29_Original ==
    Finished =>
        \A o \in Outcomes :
            Agrees(o) =>
                LET L == LegacyUpdateRecord(entry, ur.new_data, ur.old_data, o)
                IN  ~SameRun(L) => entry.has_draft

\* C29 (amended): the two versions issue the same mutating calls and reach
\* the same state from a record without an open draft whenever the read of
\* the record that the legacy version makes first succeeds; when that read
\* raises, the legacy version raises before any mutating call.  With a draft
\* found at entry the legacy version calls publish after a successful
\* update_draft and the current one does not.
C29_LegacyEquivalent ==
    Finished =>
        \A o \in Outcomes :
            Agrees(o) =>
                LET L == LegacyUpdateRecord(entry, ur.new_data, ur.old_data, o)
                IN  /\ (~entry.has_draft /\ o["read"]) => SameRun(L)
                    /\ ~o["read"] => (L.calls = << >> /\ L.raised)
                    /\ (o["read"] /\ DraftFound /\ pc = "ur_returned") =>
                          /\ Idx("publish", "none") = {}
                          /\ \E i \in DOMAIN L.calls : L.calls[i].op = "publish"
                    /\ (o["read"] /\ ~SameRun(L)) => entry.has_draft

C29_Witness ==
    /\ pc = "ur_raised"
    /\ ~entry.has_draft
    /\ Failed("publish", "none")
    /\ Succeeded("update_draft", "old_data")
    /\ \A o \in Outcomes :
          (Agrees(o) /\ o["read"]) =>
              SameRun(LegacyUpdateRecord(entry, ur.new_data, ur.old_data, o))

\* ------------------------------------------------------------------------
\* C30: the draft check and the draft creation of update_record are not
\* atomic.  With two invocations A and B on the same PID interleaved at the
\* granularity of single service calls (no draft initially), a state is
\* reachable in which B saw A's auto-created draft, skipped edit and
\* publish, overwrote the draft with B's new_data, and A's publish published
\* B's new_data: A returned normally although the published document is not
\* A's new_data.  In every interleaving the published document is one of
\* the original document, A's new_data and B's new_data.
\* ------------------------------------------------------------------------
Called == {p \in Procs : inv.procs[p].pc # "none"}

C30_PublishedIsKnown ==
    /\ published[SharedPid] \in
          {inv.original} \cup {inv.procs[p].new_data : p \in Called}
    /\ \A p \in Procs :
          /\ inv.procs[p].found => ~inv.procs[p].do_publish
          /\ inv.procs[p].pc = "publish" => inv.procs[p].do_publish

\* the lost update: A returned normally, B found A's draft and wrote its
\* new_data without editing or publishing, and what A published is B's
\* new_data
C30_Witness ==
    /\ inv.procs["A"].pc = "returned"
    /\ inv.procs["A"].do_publish
    /\ inv.procs["B"].pc = "returned"
    /\ inv.procs["B"].found
    /\ ~inv.procs["B"].do_publish
    /\ ~has_draft[SharedPid]
    /\ published[SharedPid] = inv.procs["B"].new_data
    /\ published[SharedPid] # inv.procs["A"].new_data
    /\ published[SharedPid] # inv.original

====
